---- MODULE Spec2Model ----
(***************************************************************************)
(* A model of the attachment organizer plugin (src/src/main.ts):           *)
(* detection -> planning -> conflict simulation -> apply / undo.           *)
(*                                                                         *)
(* Strings are sequences of tokens.  A token is either a punctuation       *)
(* character ("/", "\\", "|", "#", "^", "?", " ") or an atomic run of      *)
(* other characters ("SETs", "a.png").  Every string operation of the      *)
(* source (indexOf, slice, startsWith, split, toLowerCase, ...) is         *)
(* translated on token sequences.                                          *)
(***************************************************************************)
EXTENDS Integers, Sequences, FiniteSets, TLC

VARIABLES
  files,            \* vault: the set of paths of existing files (TFile)
  folders,          \* vault: the set of paths of existing folders (TFolder)
  metadata,         \* metadataCache: note path -> cached links of the note
  settings,         \* KPlugin.settings
  attachmentRules,  \* KPlugin.attachmentRules (compiled rules)
  dirty,            \* KPlugin.dirty
  lastReport,       \* KPlugin.lastReport: <<>> (null) or <<report>>
  returned,         \* the report the last detectReport call returned: <<>> or <<report>>
  refreshTimer,     \* KPlugin.refreshTimer: <<>> (null) or <<id>> of a timeout
  timers,           \* window: the pending timeouts of the plugin, each [id, force]
  undoHistory,      \* KPlugin.undoHistory
  procs,            \* the running applyPlan / undoLastOperation calls
  clock,            \* Date.now(), as a logical clock
  opCount,          \* number of operations started so far
  called            \* the last direct call of a method: <<>> or <<[fn, args, out]>>

vars == <<files, folders, metadata, settings, attachmentRules, dirty,
          lastReport, returned, refreshTimer, timers, undoHistory, procs, clock,
          opCount, called>>

(***************************************************************************)
(* Strings                                                                 *)
(***************************************************************************)
SLASH == "/"
BACKSLASH == "\\"

\* s.slice(a, b) with 0-based a (inclusive) and b (exclusive)
slice(s, a, b) == SubSeq(s, a + 1, b)

\* s.indexOf(ch): 0-based index of the first occurrence, -1 if none
indexOf(s, ch) ==
  IF \E i \in 1..Len(s) : s[i] = ch
    THEN (CHOOSE i \in 1..Len(s) : s[i] = ch /\ \A j \in 1..(i-1) : s[j] # ch) - 1
    ELSE -1

\* s.lastIndexOf(ch)
lastIndexOf(s, ch) ==
  IF \E i \in 1..Len(s) : s[i] = ch
    THEN (CHOOSE i \in 1..Len(s) : s[i] = ch /\ \A j \in (i+1)..Len(s) : s[j] # ch) - 1
    ELSE -1

startsWith(s, pre) == Len(pre) <= Len(s) /\ SubSeq(s, 1, Len(pre)) = pre

includes(s, ch) == \E i \in 1..Len(s) : s[i] = ch

\* s.split("/"): the list of the pieces between the separators
RECURSIVE split(_)
RECURSIVE splitAt(_, _)
\* the pieces of s, i being the index of its first separator (-1 if none)
splitAt(s, i) ==
  IF i = -1 THEN <<s>>
  ELSE <<slice(s, 0, i)>> \o split(slice(s, i + 1, Len(s)))

split(s) == splitAt(s, indexOf(s, SLASH))

\* parts.join("/")
RECURSIVE join(_)
join(parts) ==
  IF parts = <<>> THEN <<>>
  ELSE IF Len(parts) = 1 THEN parts[1]
  ELSE parts[1] \o <<SLASH>> \o join(Tail(parts))

\* the toLowerCase of one token
toLowerCaseTok(t) ==
  CASE t = "A.png" -> "a.png"
    [] t = "Sub"   -> "sub"
    [] t = "SETs"  -> "sets"
    [] t = "Draft" -> "draft"
    [] t = "D.EXCALIDRAW.MD" -> "d.excalidraw.md"
    [] OTHER       -> t

toLowerCase(s) == [i \in 1..Len(s) |-> toLowerCaseTok(s[i])]

\* String.prototype.normalize("NFKC") of one token: "a~.png" stands for
\* "a.png" written with a compatibility form of the letter (fullwidth a)
NFKCTok(t) == IF t = "a~.png" THEN "a.png" ELSE t

NFKC(s) == [i \in 1..Len(s) |-> NFKCTok(s[i])]

\* s.endsWith(".md") for a lower-cased string: decided by its last token
MdTokens == {"n.md", "m.md", "d.excalidraw.md", "k.canvas.md"}

endsWithMd(s) == s # <<>> /\ s[Len(s)] \in MdTokens

\* obsidian normalizePath: backslashes become "/", runs of "/" collapse,
\* leading and trailing "/" are removed
\* s.replace(/\\/g, "/")
replaceBackslash(s) == [i \in 1..Len(s) |-> IF s[i] = BACKSLASH THEN SLASH ELSE s[i]]

normalizePath(s) ==
  join(SelectSeq(split(replaceBackslash(s)), LAMBDA piece : piece # <<>>))

\* a.localeCompare(b) < 0: token by token, in the collation order of the alphabet
TokOrder == <<"/", " ", "a.png", "A.png", "a~.png", "attachments", "b.png", "c.png",
              "d.excalidraw.md", "Draft", "k.canvas.md", "m.md", "n.md", "notes",
              "SETs", "Sub", "sub", "x", "y">>

\* the place of t in the list `order`, the places after it if t is not there
rankIn(order, t) ==
  IF \E i \in 1..Len(order) : order[i] = t
    THEN CHOOSE i \in 1..Len(order) : order[i] = t
    ELSE Len(order) + 1

TokRank(t) == rankIn(TokOrder, t)

RECURSIVE localeLess(_, _)
localeLess(a, b) ==
  IF b = <<>> THEN FALSE
  ELSE IF a = <<>> THEN TRUE
  ELSE IF a[1] = b[1] THEN localeLess(Tail(a), Tail(b))
  ELSE TokRank(a[1]) < TokRank(b[1])

\* the elements of a set of strings as a list, in localeCompare order
RECURSIVE SortSet(_)
RECURSIVE sortFrom(_, _)
\* the sorted list of S, m being its least element
sortFrom(S, m) == <<m>> \o SortSet(S \ {m})

SortSet(S) ==
  IF S = {} THEN <<>>
  ELSE sortFrom(S, CHOOSE x \in S : \A y \in S \ {x} : localeLess(x, y))

(***************************************************************************)
(* Path helpers of the plugin                                              *)
(***************************************************************************)
\* p.slice(0, i), or "" when i is -1
sliceTo(p, i) == IF i = -1 THEN <<>> ELSE slice(p, 0, i)

\* the folder part of a normalized path
dirnameOfNormalized(p) == sliceTo(p, lastIndexOf(p, SLASH))

dirname(path) == dirnameOfNormalized(normalizePath(path))

\* parts.pop()
pop(parts) == parts[Len(parts)]

\* path.split("/").pop() ?? path
baseName(path) == pop(split(path))

folderKey(path) == toLowerCase(dirname(path))

nameKey(path) == NFKC(toLowerCase(baseName(path)))

\* p === root || p.startsWith(root + "/")
under(p, root) == p = root \/ startsWith(p, root \o <<SLASH>>)

(***************************************************************************)
(* Settings                                                                *)
(***************************************************************************)
RuleExcalidraw == "\\.excalidraw\\.md$"
RuleCanvas == "\\.canvas\\.md$"

\* DEFAULT_ATTACHMENT_RULES, one rule per line
DEFAULT_ATTACHMENT_RULES == <<RuleExcalidraw, RuleCanvas>>

DEFAULT_SETTINGS ==
  [ zoneA |-> <<"SETs">>,
    zoneB |-> <<"Draft">>,
    extraScanFolders |-> <<>>,
    extraScanEnabled |-> FALSE,
    recursive |-> TRUE,
    backlinkScope |-> "zoneA-only",
    linkSources |-> [links |-> TRUE, embeds |-> TRUE, frontmatter |-> TRUE],
    placement |-> [mode |-> "subfolder-under-note",
                   specifiedFolder |-> <<>>,
                   subfolderName |-> <<"attachments">>],
    multiBacklinkPolicy |-> "unchanged",
    globalNameCheck |-> "on-ignore-explicit",
    attachmentRulesText |-> DEFAULT_ATTACHMENT_RULES,
    planOutAttachments |-> FALSE,
    showStats |-> FALSE ]

MAX_UNDO_HISTORY == 10

(***************************************************************************)
(* Classification                                                          *)
(***************************************************************************)
\* new RegExp(rule, "i") does not throw
ValidRegex(rule) == rule # "["

\* the last token of p, lower-cased ("" for the empty string)
lastTokLower(p) == IF p = <<>> THEN "" ELSE toLowerCaseTok(p[Len(p)])

\* new RegExp(rule, "i").test(p)
RegexTest(rule, p) ==
  CASE rule = RuleExcalidraw -> lastTokLower(p) = "d.excalidraw.md"
    [] rule = RuleCanvas     -> lastTokLower(p) = "k.canvas.md"
    [] rule = "^notes/"      -> startsWith(toLowerCase(p), <<"notes", SLASH>>)
    [] OTHER                 -> FALSE

\* the rules of `lines` not yet in `acc`, appended in order (Set.add)
RECURSIVE addAll(_, _)
addAll(acc, lines) ==
  IF lines = <<>> THEN acc
  ELSE addAll(IF \E i \in 1..Len(acc) : acc[i] = lines[1]
                THEN acc ELSE Append(acc, lines[1]),
              Tail(lines))

\* a compilation of the user's lines alone
compileUserRules(st) ==
  SelectSeq(SelectSeq(st.attachmentRulesText, LAMBDA l : l # ""), ValidRegex)

compileAttachmentRules(st) ==
  SelectSeq(addAll(DEFAULT_ATTACHMENT_RULES,
                   SelectSeq(st.attachmentRulesText, LAMBDA l : l # "")),
            ValidRegex)

\* c && (p === c || p.startsWith(c + "/"))
underNonEmpty(p, c) == c # <<>> /\ under(p, c)

\* a classification that looks at the workspace root first
zoneOfAFirst(st, p, a, b) ==
  IF a = <<>> \/ under(p, a) THEN "A"
  ELSE IF underNonEmpty(p, b) THEN "B"
  ELSE "OUT"

\* zoneOf once p, a and b are normalized
zoneOfNormalized(st, p, a, b) ==
  IF underNonEmpty(p, b) THEN "B"
  ELSE IF st.extraScanEnabled /\
          \E i \in 1..Len(st.extraScanFolders) :
             underNonEmpty(p, normalizePath(st.extraScanFolders[i]))
    THEN "C"
  ELSE IF a = <<>> THEN "A"
  ELSE IF under(p, a) THEN "A"
  ELSE "OUT"

zoneOf(st, path) ==
  zoneOfNormalized(st, normalizePath(path), normalizePath(st.zoneA), normalizePath(st.zoneB))

\* isAttachmentMd once p is normalized
attachmentMdNormalized(rules, p) ==
  endsWithMd(toLowerCase(p)) /\ \E i \in 1..Len(rules) : RegexTest(rules[i], p)

isAttachmentMd(rules, path) == attachmentMdNormalized(rules, normalizePath(path))

kindOf(rules, path) ==
  IF endsWithMd(toLowerCase(path))
    THEN IF isAttachmentMd(rules, path) THEN "attachment-md" ELSE "note-md"
    ELSE "attachment-file"

isAttachmentKind(k) == k = "attachment-file" \/ k = "attachment-md"

isNoteMd(rules, path) == endsWithMd(toLowerCase(path)) /\ ~isAttachmentMd(rules, path)

(***************************************************************************)
(* Host services (obsidian Vault and MetadataCache)                        *)
(***************************************************************************)
\* vault.getFiles() / getMarkdownFiles(): the host's order is taken to be
\* the sorted one
getFiles(fs) == SortSet(fs)

\* folder.children files, walked recursively or not (listAllFiles)
listAllFiles(fs, folder, recursive) ==
  SortSet({f \in fs :
             IF recursive THEN folder = <<>> \/ startsWith(f, folder \o <<SLASH>>)
                          ELSE dirname(f) = folder})

\* a ?? b on values that are <<>> (null) or <<x>>
orElse(a, b) == IF a # <<>> THEN a ELSE b

\* the first of a set of paths in sorted order, <<>> if there is none
firstOf(S) == IF S = {} THEN <<>> ELSE <<SortSet(S)[1]>>

\* the best of the files whose path ends with the link path: one in the
\* folder of the source note first
bestMatch(cands, folder) == orElse(firstOf({f \in cands : dirname(f) = folder}), firstOf(cands))

\* metadataCache.getFirstLinkpathDest(linkpath, sourcePath): the file at
\* exactly that path, else the best match among the files whose path ends
\* with the link path.  The result is <<>> (null) or <<path>>.
getFirstLinkpathDest(fs, linkpath, sourcePath) ==
  IF linkpath \in fs THEN <<linkpath>>
  ELSE bestMatch({f \in fs : linkpath # <<>> /\ Len(f) > Len(linkpath) /\
                    SubSeq(f, Len(f) - Len(linkpath), Len(f)) = <<SLASH>> \o linkpath},
                 dirname(sourcePath))

(***************************************************************************)
(* Links                                                                   *)
(***************************************************************************)
\* s.trim()
RECURSIVE trimLeft(_)
trimLeft(s) == IF s # <<>> /\ s[1] = " " THEN trimLeft(Tail(s)) ELSE s

RECURSIVE trimRight(_)
trimRight(s) ==
  IF s # <<>> /\ s[Len(s)] = " " THEN trimRight(SubSeq(s, 1, Len(s) - 1)) ELSE s

trim(s) == trimRight(trimLeft(s))

\* input.slice(0, i) when i is an index, else input
sliceOrAll(input, i) == IF i = -1 THEN input ELSE slice(input, 0, i)

\* a cut at the last occurrence of ch
cutAtLast(ch, input) == sliceOrAll(input, lastIndexOf(input, ch))

cutAt(ch, input) == sliceOrAll(input, indexOf(input, ch))

\* decodeURIComponent of one escape: "%20" is an encoded space, "%2520" an
\* encoded "%20"
decodeTok(t) ==
  CASE t = "%20"   -> " "
    [] t = "%2520" -> "%20"
    [] OTHER       -> t

\* decodeURIComponent: "%" alone is malformed and makes the call throw (the
\* string is then left as it is)
decodeURIComponentOrSame(s) ==
  IF includes(s, "%") THEN s
  ELSE [i \in 1..Len(s) |-> decodeTok(s[i])]

\* if (s.includes("%")) s = decodeURIComponent(s), errors ignored
decodeIfPercent(s) ==
  IF includes(s, "%") \/ includes(s, "%20") \/ includes(s, "%2520")
    THEN decodeURIComponentOrSame(s) ELSE s

\* parseLink after the first trim
parseTrimmed(s) ==
  IF s = <<>> THEN <<>>
  ELSE decodeIfPercent(replaceBackslash(trim(
         cutAt("?", cutAt("^", cutAt("#", cutAt("|", s)))))))

\* parseLink: <<>> stands for null, else the cleaned file part
parseLink(raw) == parseTrimmed(trim(raw))

\* s.startsWith("http://") || ... on the lower-cased string
externalStart(s) == s # <<>> /\ s[1] \in {"http://", "https://", "mailto:", "file://"}

isExternal(raw) == externalStart(toLowerCase(trim(raw)))

\* if (s.startsWith("/")) s = s.slice(1)
dropLeadingSlash(s) == IF startsWith(s, <<SLASH>>) THEN slice(s, 1, Len(s)) ELSE s

\* base ? `${base}/${s}` : s
joinBase(base, s) == IF base # <<>> THEN base \o <<SLASH>> \o s ELSE s

\* normalizeExplicitToVaultPath after the trim and the leading slash
explicitFrom(s, fromNotePath) ==
  IF startsWith(s, <<".", SLASH>>) \/ startsWith(s, <<"..", SLASH>>)
    THEN normalizePath(joinBase(dirname(fromNotePath), s))
    ELSE normalizePath(s)

normalizeExplicitToVaultPath(explicitRaw, fromNotePath) ==
  explicitFrom(dropLeadingSlash(replaceBackslash(trim(explicitRaw))), fromNotePath)

\* vault.getAbstractFileByPath(p) instanceof TFile: <<p>> or <<>>
fileAt(fs, p) == IF p \in fs THEN <<p>> ELSE <<>>

\* the second try of resolveToFileByObsidian, without the leading slash
resolveNoSlash(fs, noSlash, fromMdPath) ==
  orElse(getFirstLinkpathDest(fs, noSlash, fromMdPath), fileAt(fs, normalizePath(noSlash)))

resolveToFileByObsidian(fs, linkKey, fromMdPath) ==
  orElse(getFirstLinkpathDest(fs, linkKey, fromMdPath),
         IF startsWith(linkKey, <<SLASH>>)
           THEN resolveNoSlash(fs, slice(linkKey, 1, Len(linkKey)), fromMdPath)
           ELSE <<>>)

(***************************************************************************)
(* Entries and the entry map (a Map keeps insertion order: a list)         *)
(***************************************************************************)
Keep == [type |-> "keep", target |-> <<>>, reason |-> "", explicit |-> FALSE]

MoveToB(reason) ==
  [type |-> "moveToB", target |-> <<>>, reason |-> reason, explicit |-> FALSE]

MoveTo(target, reason, explicit) ==
  [type |-> "moveTo", target |-> target, reason |-> reason, explicit |-> explicit]

UnknownAction(reason) ==
  [type |-> "unknown", target |-> <<>>, reason |-> reason, explicit |-> FALSE]

CTO == "conflict-target-occupied"
CAN == "conflict-ambiguous-name"

hasTag(e, tag) == \E i \in 1..Len(e.tags) : e.tags[i] = tag

ensureTag(e, tag) == IF hasTag(e, tag) THEN e ELSE [e EXCEPT !.tags = Append(@, tag)]

ensureConflict(e, tag) == ensureTag(e, IF tag # CTO /\ tag # CAN THEN CTO ELSE tag)

isConflict(e) == hasTag(e, CTO) \/ hasTag(e, CAN)

markOf(e) ==
  IF e.kind = "note-md" THEN "-"
  ELSE IF hasTag(e, "missing") THEN "M"
  ELSE IF isConflict(e) THEN "C"
  ELSE IF e.action.type = "keep" THEN "K"
  ELSE IF e.action.type = "moveTo" THEN "R"
  ELSE "B"

mapHas(map, p) == \E i \in 1..Len(map) : map[i].path = p

mapIdx(map, p) == CHOOSE i \in 1..Len(map) : map[i].path = p

mapGet(map, p) == map[mapIdx(map, p)]

mapSet(map, e) == [map EXCEPT ![mapIdx(map, e.path)] = e]

\* the entry ensure creates for a normalized path
newEntry(st, rules, p) ==
  [path |-> p,
   displayName |-> baseName(p),
   zone |-> zoneOf(st, p),
   kind |-> kindOf(rules, p),
   referencedByNotes |-> <<>>,
   action |-> Keep,
   tags |-> <<>>,
   conflictWith |-> <<>>,
   virtualFrom |-> <<>>,
   isPreview |-> FALSE]

\* ensure once the path is normalized
ensureNormalized(st, rules, map, p) ==
  IF mapHas(map, p) THEN map ELSE Append(map, newEntry(st, rules, p))

\* ensure(path) of detectReport, without init: the map with the entry added
ensure(st, rules, map, path) == ensureNormalized(st, rules, map, normalizePath(path))

RECURSIVE ensureAll(_, _, _, _)
ensureAll(st, rules, map, paths) ==
  IF paths = <<>> THEN map
  ELSE ensureAll(st, rules, ensure(st, rules, map, paths[1]), Tail(paths))

(***************************************************************************)
(* Inventory                                                               *)
(***************************************************************************)
\* scanFolder's loop: out.push of the files not seen yet
RECURSIVE pushUnseen(_, _)
pushUnseen(out, fl) ==
  IF fl = <<>> THEN out
  ELSE pushUnseen(IF \E i \in 1..Len(out) : out[i] = fl[1]
                    THEN out ELSE Append(out, fl[1]),
                  Tail(fl))

\* getFolder once the path is normalized
folderAt(fds, p) == IF p # <<>> /\ p \in fds THEN <<TRUE, p>> ELSE <<FALSE>>

\* getFolder: <<TRUE, path>> for an existing folder, <<FALSE>> for null
getFolder(fds, path) == folderAt(fds, normalizePath(path))

\* folder ?? root: the root is the empty path
folderOrRoot(g) == IF g[1] THEN g[2] ELSE <<>>

getFolderOrRoot(fds, path) == folderOrRoot(getFolder(fds, path))

\* if (folder) scanFolder(folder)
scanFolder(fs, st, out, g) ==
  IF g[1] THEN pushUnseen(out, listAllFiles(fs, g[2], st.recursive)) ELSE out

RECURSIVE scanFolders(_, _, _, _, _)
scanFolders(fs, fds, st, out, fl) ==
  IF fl = <<>> THEN out
  ELSE scanFolders(fs, fds, st, scanFolder(fs, st, out, getFolder(fds, fl[1])), Tail(fl))

\* the files of the whole-vault scan: those in neither zone
restOfVault(fs, aPath, bPath) ==
  SelectSeq(getFiles(fs), LAMBDA f : /\ ~underNonEmpty(normalizePath(f), aPath)
                                     /\ ~underNonEmpty(normalizePath(f), bPath))

\* the extra scan: the listed folders, or the rest of the vault
scanExtra(fs, fds, st, out, xs) ==
  IF Len(xs) > 0 THEN scanFolders(fs, fds, st, out, xs)
  ELSE pushUnseen(out, restOfVault(fs, normalizePath(st.zoneA), normalizePath(st.zoneB)))

\* the scans that follow the staging folder
scanAfterB(fs, fds, st, out) ==
  IF ~st.extraScanEnabled THEN out
  ELSE scanExtra(fs, fds, st, out, SelectSeq(st.extraScanFolders, LAMBDA f : trim(f) # <<>>))

\* the scans that follow zone A
scanAfterA(fs, fds, st, out) ==
  IF normalizePath(st.zoneA) = <<>> THEN out
  ELSE scanAfterB(fs, fds, st, scanFolders(fs, fds, st, out, <<st.zoneB>>))

scanInventoryFiles(fs, fds, st) ==
  scanAfterA(fs, fds, st,
             pushUnseen(<<>>, listAllFiles(fs, getFolderOrRoot(fds, st.zoneA), st.recursive)))

\* the markdown files that are notes
notesOf(fs, rules) ==
  SelectSeq(SelectSeq(getFiles(fs), LAMBDA f : endsWithMd(toLowerCase(f))),
            LAMBDA f : isNoteMd(rules, f))

listNotesByScope(fs, st, rules) ==
  IF st.backlinkScope = "whole-vault" THEN notesOf(fs, rules)
  ELSE SelectSeq(notesOf(fs, rules), LAMBDA f : zoneOf(st, f) = "A")

(***************************************************************************)
(* Backlinks (detectReport, step 2)                                        *)
(***************************************************************************)
\* missingKeys: a Map key -> Backlink[], as a list of [key, bls]
missHas(miss, key) == \E i \in 1..Len(miss) : miss[i].key = key

\* a push that keeps the last backlink of a key only
missPushLast(miss, key, bl) ==
  IF missHas(miss, key)
    THEN [i \in 1..Len(miss) |->
            IF miss[i].key = key THEN [miss[i] EXCEPT !.bls = <<bl>>] ELSE miss[i]]
    ELSE Append(miss, [key |-> key, bls |-> <<bl>>])

missPush(miss, key, bl) ==
  IF missHas(miss, key)
    THEN [i \in 1..Len(miss) |->
            IF miss[i].key = key THEN [miss[i] EXCEPT !.bls = Append(@, bl)] ELSE miss[i]]
    ELSE Append(miss, [key |-> key, bls |-> <<bl>>])

\* the file a link resolves to, <<>> for none: the explicit path if a file
\* is there, else the host's resolution of the link, else that of the base
\* name of the explicit path
resolveDest(fs, cleaned, explicitDesired, from) ==
  IF explicitDesired # <<>> /\ explicitDesired \in fs THEN <<explicitDesired>>
  ELSE orElse(resolveToFileByObsidian(fs, cleaned, from),
              IF explicitDesired # <<>>
                THEN resolveToFileByObsidian(fs, baseName(explicitDesired), from)
                ELSE <<>>)

\* to.zone and to.kind are set again; the backlink is pushed unless one
\* from the same note is there
addBacklink(st, rules, to, bl) ==
  [to EXCEPT !.zone = zoneOf(st, to.path),
             !.kind = kindOf(rules, to.path),
             !.referencedByNotes =
                IF \E i \in 1..Len(to.referencedByNotes) : to.referencedByNotes[i].from = bl.from
                  THEN @ ELSE Append(@, bl)]

\* the map after `to = ensure(dest.path)` and the update of `to`
linkTo(st, rules, map, p, bl) == mapSet(map, addBacklink(st, rules, mapGet(map, p), bl))

\* the end of the loop body: the backlink goes to the entry of dest, or to
\* the missing keys
recordLink(st, rules, acc, dest, bl) ==
  IF dest # <<>>
    THEN [acc EXCEPT !.map = linkTo(st, rules, ensure(st, rules, acc.map, dest[1]),
                                    normalizePath(dest[1]), bl)]
    ELSE [acc EXCEPT !.miss = missPush(@, IF bl.explicitPath # <<>> THEN bl.explicitPath
                                                                    ELSE bl.cleaned, bl)]

\* the loop body once the link is parsed and the explicit path known
processParsed(fs, st, rules, acc, from, raw, cleaned, explicitDesired) ==
  recordLink(st, rules, acc, resolveDest(fs, cleaned, explicitDesired, from),
             [from |-> from, raw |-> raw, cleaned |-> cleaned,
              explicitPath |-> explicitDesired])

\* const isExplicit = cleanedFilePart.includes("/")
isExplicit(cleaned) == includes(cleaned, SLASH)

\* the loop body once the link is parsed
processCleaned(fs, st, rules, acc, from, raw, cleaned) ==
  IF cleaned = <<>> THEN acc
  ELSE IF isExternal(cleaned) THEN acc
  ELSE processParsed(fs, st, rules, acc, from, raw, cleaned,
                     IF isExplicit(cleaned)
                       THEN normalizeExplicitToVaultPath(cleaned, from) ELSE <<>>)

\* the body of `for (const raw of rawLinks)`; acc = [map, miss]
processLink(fs, st, rules, acc, from, raw) ==
  processCleaned(fs, st, rules, acc, from, raw, parseLink(raw))

RECURSIVE processLinks(_, _, _, _, _, _)
processLinks(fs, st, rules, acc, from, raws) ==
  IF raws = <<>> THEN acc
  ELSE processLinks(fs, st, rules, processLink(fs, st, rules, acc, from, raws[1]),
                    from, Tail(raws))

\* the raw links of a note, by the enabled link sources
rawLinksOf(st, cache) ==
  (IF st.linkSources.links THEN cache.links ELSE <<>>)
  \o (IF st.linkSources.embeds THEN cache.embeds ELSE <<>>)
  \o (IF st.linkSources.frontmatter THEN cache.frontmatterLinks ELSE <<>>)

RECURSIVE processNotes(_, _, _, _, _, _)
processNotes(fs, md, st, rules, acc, notes) ==
  IF notes = <<>> THEN acc
  ELSE processNotes(fs, md, st, rules,
         IF notes[1] \in DOMAIN md
           THEN processLinks(fs, st, rules, acc, notes[1], rawLinksOf(st, md[notes[1]]))
           ELSE acc,
         Tail(notes))

MissingPrefix == <<"__missing", SLASH>>

\* the fields ensure(p, init) assigns to a missing entry
missingEntry(e, m) ==
  [e EXCEPT !.displayName = baseName(m.key),
            !.zone = "OUT",
            !.kind = "unknown",
            !.referencedByNotes = m.bls,
            !.action = UnknownAction("missing"),
            !.tags = <<"missing">>]

\* ensure(p, init) for one missing key, p being normalized
ensureMissing(map, p, m) == mapSet(map, missingEntry(mapGet(map, p), m))

\* ensure(p, init) for the missing keys
RECURSIVE addMissing(_, _, _, _)
addMissing(st, rules, map, miss) ==
  IF miss = <<>> THEN map
  ELSE addMissing(st, rules,
                  ensureMissing(ensure(st, rules, map, MissingPrefix \o miss[1].key),
                                normalizePath(MissingPrefix \o miss[1].key), miss[1]),
                  Tail(miss))

(***************************************************************************)
(* Planning (detectReport, step 3)                                         *)
(***************************************************************************)
\* the subfolder-under-note folder, sub being the normalized subfolder name
underNote(baseFolder, sub) ==
  IF sub = <<>> THEN normalizePath(baseFolder) ELSE normalizePath(joinBase(baseFolder, sub))

\* a policy that always answers the folder of the note
folderOfNote(st, baseFolder) == <<TRUE, normalizePath(baseFolder)>>

\* targetFolderFromPolicy: <<FALSE>> stands for null, else <<TRUE, folder>>
targetFolderFromPolicy(st, baseFolder) ==
  CASE st.placement.mode = "vault-folder" -> <<TRUE, <<>> >>
    [] st.placement.mode = "specified-folder" ->
         <<TRUE, normalizePath(st.placement.specifiedFolder)>>
    [] st.placement.mode = "same-folder-as-note" -> <<TRUE, normalizePath(baseFolder)>>
    [] st.placement.mode = "subfolder-under-note" ->
         <<TRUE, underNote(baseFolder, normalizePath(st.placement.subfolderName))>>
    [] OTHER -> <<FALSE>>

\* normalizePath(targetFolder ? `${targetFolder}/${name}` : name)
inFolder(targetFolder, name) == normalizePath(joinBase(targetFolder, name))

\* the plan into the folder tf of the policy; a null plan becomes Keep at
\* the call site
planInto(tf, name, reason) ==
  IF ~tf[1] THEN Keep ELSE MoveTo(inFolder(tf[2], name), reason, FALSE)

planTargetForOneBacklink(st, e, bl) ==
  IF bl.explicitPath # <<>>
    THEN MoveTo(bl.explicitPath, "single-backlink-explicit", TRUE)
    ELSE planInto(targetFolderFromPolicy(st, dirname(bl.from)), baseName(e.path),
                  "single-backlink-policy")

\* the while loop of lcaFolder: the length of the common prefix, from j on
RECURSIVE commonLen(_, _, _)
commonLen(prefix, cur, j) ==
  IF j < Len(prefix) /\ j < Len(cur) /\ prefix[j + 1] = cur[j + 1]
    THEN commonLen(prefix, cur, j + 1)
    ELSE j

\* the for loop of lcaFolder, from index i on (indices from 1)
RECURSIVE lcaLoop(_, _, _)
RECURSIVE lcaNext(_, _, _)
lcaNext(prefix, parts, i) ==
  IF prefix = <<>> THEN prefix ELSE lcaLoop(prefix, parts, i + 1)

lcaLoop(prefix, parts, i) ==
  IF i > Len(parts) THEN prefix
  ELSE lcaNext(SubSeq(prefix, 1, commonLen(prefix, parts[i], 0)), parts, i)

\* lcaFolder on the split folders
lcaOfParts(parts) == join(lcaLoop(parts[1], parts, 2))

\* the first folder instead of the common ancestor
firstFolder(fl) == IF Len(fl) = 0 THEN <<>> ELSE normalizePath(fl[1])

lcaFolder(fl) ==
  IF Len(fl) = 0 THEN <<>>
  ELSE lcaOfParts([i \in 1..Len(fl) |->
                     SelectSeq(split(normalizePath(fl[i])), LAMBDA x : x # <<>>)])

planTargetForMultiBacklink(st, e) ==
  IF Len(e.referencedByNotes) < 2 THEN Keep
  ELSE IF st.multiBacklinkPolicy = "unchanged" THEN Keep
  ELSE IF st.multiBacklinkPolicy = "pick-first"
    THEN planInto(targetFolderFromPolicy(st, dirname(e.referencedByNotes[1].from)),
                  baseName(e.path), "multi-pick-first")
  ELSE planInto(targetFolderFromPolicy(st,
                  lcaFolder([i \in 1..Len(e.referencedByNotes) |->
                               dirname(e.referencedByNotes[i].from)])),
                baseName(e.path), "multi-lca")

\* a planning loop that skips no zone
planEntryAnyZone(st, e) ==
  IF ~isAttachmentKind(e.kind) THEN e
  ELSE IF hasTag(e, "missing") THEN e
  ELSE IF Len(e.referencedByNotes) = 0
    THEN ensureTag([e EXCEPT !.action = MoveToB("orphan")], "orphan")
  ELSE IF Len(e.referencedByNotes) = 1
    THEN [e EXCEPT !.action = planTargetForOneBacklink(st, e, e.referencedByNotes[1])]
  ELSE [e EXCEPT !.action = planTargetForMultiBacklink(st, e)]

\* the body of the planning loop for one entry
planEntry(st, e) ==
  IF ~isAttachmentKind(e.kind) THEN e
  ELSE IF hasTag(e, "missing") THEN e
  ELSE IF e.zone = "B" THEN e
  ELSE IF e.zone = "OUT" /\ ~st.planOutAttachments THEN [e EXCEPT !.action = Keep]
  ELSE IF Len(e.referencedByNotes) = 0
    THEN ensureTag([e EXCEPT !.action = MoveToB("orphan")], "orphan")
  ELSE IF Len(e.referencedByNotes) = 1
    THEN [e EXCEPT !.action = planTargetForOneBacklink(st, e, e.referencedByNotes[1])]
  ELSE [e EXCEPT !.action = planTargetForMultiBacklink(st, e)]

\* the planning loop over the map
planAll(st, map) == [i \in 1..Len(map) |-> planEntry(st, map[i])]

\* a moveToB target in the vault root
intoVaultRoot(b, name) == <<TRUE, normalizePath(name)>>

\* the moveToB target, b being the normalized staging folder
intoStaging(b, name) ==
  IF b = <<>> THEN <<FALSE>> ELSE <<TRUE, normalizePath(b \o <<SLASH>> \o name)>>

\* targetOf: <<FALSE>> stands for null, else <<TRUE, target>>
targetOf(st, e) ==
  IF e.action.type = "moveTo" THEN <<TRUE, normalizePath(e.action.target)>>
  ELSE IF e.action.type = "moveToB"
    THEN intoStaging(normalizePath(st.zoneB), baseName(e.path))
  ELSE <<FALSE>>

(***************************************************************************)
(* Preview simulation and conflicts (detectReport, step 4)                 *)
(*                                                                         *)
(* The three indices are Maps, modelled as sets of <<key, value>> pairs    *)
(* with one pair per key.  The pass state is                               *)
(*   [map, plannedTargets, plannedName, plannedFolderName, preview, hits]  *)
(* where hits is a history of the collisions the pass met (not part of the *)
(* program's data).                                                        *)
(***************************************************************************)
idxHas(idx, k) == \E kv \in idx : kv[1] = k

idxGet(idx, k) == (CHOOSE kv \in idx : kv[1] = k)[2]

idxSet(idx, k, v) == {kv \in idx : kv[1] # k} \cup {<<k, v>>}

idxDelete(idx, k) == {kv \in idx : kv[1] # k}

\* existingByName.get(nk) ?? []: the vault files with that name key
existingByName(fs, nk) == SelectSeq(getFiles(fs), LAMBDA f : nameKey(f) = nk)

\* exist.filter((p) => normalizePath(p) !== normalizePath(e.path))
othersOf(fs, nk, path) ==
  SelectSeq(existingByName(fs, nk), LAMBDA q : normalizePath(q) # normalizePath(path))

\* ensureConflict(e, tag); e.action = { type: "keep" } on the entry at path
markKeep(s, path, tag) ==
  [s EXCEPT !.map = mapSet(s.map, [ensureConflict(mapGet(s.map, path), tag)
                                     EXCEPT !.action = Keep])]

\* e.action = { type: "keep" } on the entry at path
keepEntry(s, path) ==
  [s EXCEPT !.map = mapSet(s.map, [mapGet(s.map, path) EXCEPT !.action = Keep])]

\* the three deletes of rollbackPlanned for the planned target t
dropTarget(s, t) ==
  [s EXCEPT !.plannedTargets = idxDelete(@, t),
            !.plannedFolderName = idxDelete(@, <<folderKey(t), nameKey(t)>>),
            !.plannedName = idxDelete(@, nameKey(t))]

\* the indices after `for (const [t, ep] of plannedTargets) if (ep === entryPath) ...`
dropPlanned(s, entryPath) ==
  IF \E kv \in s.plannedTargets : kv[2] = entryPath
    THEN dropTarget(s, (CHOOSE kv \in s.plannedTargets : kv[2] = entryPath)[1])
    ELSE s

\* rollbackPlanned: the pushed preview entry stays in the preview list
rollbackPlanned(s, entryPath, tag) ==
  IF ~mapHas(s.map, entryPath) THEN s
  ELSE markKeep(dropPlanned(s, entryPath), entryPath, tag)

\* the second half of markBothAndRollback: `if (b) { ... }`
rollbackOther(s, bPath, tag) ==
  IF mapHas(s.map, bPath) THEN rollbackPlanned(markKeep(s, bPath, tag), bPath, tag) ELSE s

\* a rollback of the later candidate alone
markLaterOnly(s, aPath, bPath, tag) == markKeep(s, aPath, tag)

markBothAndRollback(s, aPath, bPath, tag) == rollbackOther(markKeep(s, aPath, tag), bPath, tag)

\* the collision of candidate a with b over `target` is recorded
withHit(s, kind, a, b, target) ==
  [s EXCEPT !.hits = @ \cup {[kind |-> kind, a |-> a, b |-> b, target |-> target]}]

\* the preview entry pushed for a planned candidate.  The copy shares the
\* candidate's tags array: its tags are read from the candidate when the
\* report is assembled (see previewOf).
previewEntry(st, e, target) ==
  [e EXCEPT !.path = target,
            !.displayName = baseName(target),
            !.zone = zoneOf(st, target),
            !.virtualFrom = e.path,
            !.isPreview = TRUE]

\* a check of the names that holds for explicit moves in every mode but off
shouldCheckGlobalAlways(st, e) == st.globalNameCheck # "off"

\* gmode !== "off" && (gmode === "on-even-explicit" || !explicitMove)
shouldCheckGlobal(st, e) ==
  /\ st.globalNameCheck # "off"
  /\ (st.globalNameCheck = "on-even-explicit"
        \/ ~(e.action.type = "moveTo" /\ e.action.explicit))

\* case (2): an existing file occupies the target
occupied(s, ePath, target) ==
  IF mapHas(s.map, target)
    THEN withHit(markKeep(markKeep(s, ePath, CTO), target, CTO), "occupied", ePath, target, target)
    ELSE markKeep(s, ePath, CTO)

\* case (4), second half: existing files of the same name
ambiguous(s, e, others) ==
  [s EXCEPT !.map = mapSet(s.map, [ensureConflict(e, CAN) EXCEPT
                                     !.conflictWith = SubSeq(others, 1,
                                        IF Len(others) < 3 THEN Len(others) ELSE 3),
                                     !.action = Keep])]

\* success: the planned move is recorded and the preview entry pushed
planned(st, s, e, target, folderNameKey, nk, check) ==
  [s EXCEPT !.plannedTargets = idxSet(@, target, e.path),
            !.plannedFolderName = idxSet(@, folderNameKey, e.path),
            !.plannedName = IF check THEN idxSet(@, nk, e.path) ELSE @,
            !.preview = Append(@, previewEntry(st, e, target))]

\* cases (3) and (4) of the loop body
simulateKeys(st, s, e, target, folderNameKey, nk, check, others) ==
  IF idxHas(s.plannedFolderName, folderNameKey)
    THEN withHit(markBothAndRollback(s, e.path, idxGet(s.plannedFolderName, folderNameKey), CTO),
                 "folder-name", e.path, idxGet(s.plannedFolderName, folderNameKey), target)
  ELSE IF check /\ idxHas(s.plannedName, nk)
    THEN withHit(markBothAndRollback(s, e.path, idxGet(s.plannedName, nk), CAN),
                 "name", e.path, idxGet(s.plannedName, nk), target)
  ELSE IF check /\ Len(others) > 0 THEN ambiguous(s, e, others)
  ELSE planned(st, s, e, target, folderNameKey, nk, check)

\* the loop body from the target on; tg is the result of targetOf
simulateTarget(fs, st, s, e, tg) ==
  IF ~tg[1] THEN keepEntry(s, e.path)
  ELSE IF tg[2] = <<>> THEN keepEntry(s, e.path)
  ELSE IF normalizePath(tg[2]) = normalizePath(e.path) THEN keepEntry(s, e.path)
  ELSE IF idxHas(s.plannedTargets, tg[2])
    THEN withHit(markBothAndRollback(s, e.path, idxGet(s.plannedTargets, tg[2]), CTO),
                 "claimed", e.path, idxGet(s.plannedTargets, tg[2]), tg[2])
  ELSE IF tg[2] \in fs THEN occupied(s, e.path, tg[2])
  ELSE simulateKeys(st, s, e, tg[2], <<folderKey(tg[2]), nameKey(tg[2])>>, nameKey(tg[2]),
                    shouldCheckGlobal(st, e), othersOf(fs, nameKey(tg[2]), e.path))

\* the loop body for the candidate e
simulateEntry(fs, st, s, e) ==
  IF isConflict(e) THEN s ELSE simulateTarget(fs, st, s, e, targetOf(st, e))

\* the body of `for (const e of candidates)`: the candidate is the entry of
\* the map at ePath, as the pass has left it
simulateOne(fs, st, s, ePath) == simulateEntry(fs, st, s, mapGet(s.map, ePath))

RECURSIVE simulateLoop(_, _, _, _)
simulateLoop(fs, st, s, cands) ==
  IF cands = <<>> THEN s
  ELSE simulateLoop(fs, st, simulateOne(fs, st, s, cands[1]), Tail(cands))

\* the candidates of the pass, sorted by path
candidatesOf(map) ==
  SortSet({map[i].path : i \in {j \in 1..Len(map) :
              /\ isAttachmentKind(map[j].kind)
              /\ ~hasTag(map[j], "missing")
              /\ map[j].action.type \in {"moveToB", "moveTo"}}})

simulatePreviewAndMarkConflicts(fs, st, map) ==
  simulateLoop(fs, st,
               [map |-> map, plannedTargets |-> {}, plannedName |-> {},
                plannedFolderName |-> {}, preview |-> <<>>, hits |-> {}],
               candidatesOf(map))

(***************************************************************************)
(* detectReport                                                            *)
(***************************************************************************)
count(map, P(_)) == Cardinality({i \in 1..Len(map) : P(map[i])})

\* the preview list as the report holds it: each preview entry has the tags
\* array of the entry it was copied from
previewOf(map, pv) ==
  [i \in 1..Len(pv) |-> [pv[i] EXCEPT !.tags = mapGet(map, pv[i].virtualFrom).tags]]

\* the filter of reportEntries
shown(e, previewTargetSet) ==
  \/ startsWith(e.path, MissingPrefix)
  \/ e.zone \in {"A", "B", "C"}
  \/ Len(e.referencedByNotes) > 0
  \/ isConflict(e)
  \/ e.action.type \in {"moveToB", "moveTo"}
  \/ e.path \in previewTargetSet

\* the stats loop
statsOf(map) ==
  [notes |-> count(map, LAMBDA e : e.kind = "note-md"),
   attachments |-> count(map, LAMBDA e : isAttachmentKind(e.kind)),
   todo |-> count(map, LAMBDA e : markOf(e) \in {"B", "R", "C", "M"}),
   missing |-> count(map, LAMBDA e : hasTag(e, "missing")),
   conflicts |-> count(map, isConflict),
   total |-> Len(map)]

\* the report object; hits is the history of the simulation pass
reportOf(map, preview, hits) ==
  [entries |-> SelectSeq(map, LAMBDA e :
                  shown(e, {normalizePath(preview[i].path) : i \in 1..Len(preview)})),
   preview |-> preview,
   stats |-> statsOf(map),
   hits |-> hits]

\* steps 'stats' and 'report' from the result of the simulation pass
reportOfPass(sim) == reportOf(sim.map, previewOf(sim.map, sim.preview), sim.hits)

\* steps 1 and 2: the inventory and the backlinks
scanned(fs, fds, md, st, rules) ==
  processNotes(fs, md, st, rules,
               [map |-> ensureAll(st, rules, <<>>, scanInventoryFiles(fs, fds, st)),
                miss |-> <<>>],
               listNotesByScope(fs, st, rules))

\* the missing entries are added to the map of the backlink pass
withMissing(st, rules, acc) == addMissing(st, rules, acc.map, acc.miss)

\* the report computed from a snapshot of the vault, the metadata cache, the
\* settings and the compiled rules
computeReport(fs, fds, md, st, rules) ==
  reportOfPass(simulatePreviewAndMarkConflicts(fs, st,
    planAll(st, withMissing(st, rules, scanned(fs, fds, md, st, rules)))))

(***************************************************************************)
(* Plugin state machine                                                    *)
(*                                                                         *)
(* An action is the code that runs between two awaits.  The awaits of      *)
(* ensureFolderExists and vault.rename within one loop iteration are taken *)
(* as one step.                                                            *)
(***************************************************************************)
\* the calls of applyPlan / undoLastOperation that may be in flight at once;
\* a new call takes the first free slot
Procs == {1, 2}

freeSlot(ps, p) == ps[p].pc = "idle" /\ \A q \in Procs : q < p => ps[q].pc # "idle"

\* at most MaxOps operations are started in a behaviour
MaxOps == 2

\* a call that is not running.  Fields after `entry` are history variables
\* (what the call did), not program data.
IdleProc ==
  [op |-> "none", pc |-> "idle",
   report |-> <<>>, moves |-> <<>>, idx |-> 0, ok |-> 0, fail |-> 0,
   successfulMoves |-> <<>>, entry |-> <<>>,
   answered |-> "", outcome |-> "", attempted |-> <<>>, issued |-> <<>>, renamed |-> <<>>,
   created |-> {}, pushed |-> <<>>, preFiles |-> {}, cleanRun |-> TRUE,
   histAtCall |-> <<>>, histAtAnswer |-> <<>>, histAtEnd |-> <<>>, endFiles |-> {}]

\* the timeouts left by another that clears nothing
clearNothing(ts, h) == ts

\* if (this.refreshTimer) window.clearTimeout(this.refreshTimer), on the
\* pending timeouts ts and the handle h
clearTimeout(ts, h) == IF h = <<>> THEN ts ELSE {t \in ts : t.id # h[1]}

\* the id window.setTimeout returns: one that no pending timeout has
freshId(ts) ==
  CHOOSE i \in 1..(Cardinality(ts) + 1) :
     /\ \A t \in ts : t.id # i
     /\ \A j \in 1..(i - 1) : \E t \in ts : t.id = j

\* window.setTimeout(() => { ... refreshOpenViews(force) }, 600)
setTimeout(ts, force) == ts \cup {[id |-> freshId(ts), force |-> force]}

\* the timer part of markDirtyAndScheduleRefresh(force): the pending
\* timeout, if any, is cleared and a new one is armed
markDirtyTimer(force) ==
  /\ timers' = setTimeout(clearTimeout(timers, refreshTimer), force)
  /\ refreshTimer' = <<freshId(clearTimeout(timers, refreshTimer))>>

\* detectReport past its early return: the fresh report r is stored and
\* returned
detected(r) ==
  /\ dirty' = FALSE
  /\ lastReport' = <<r>>
  /\ returned' = <<r>>

\* a detectReport that serves its cache without looking at dirty
detectReportStale(force) ==
  IF ~force /\ lastReport # <<>>
    THEN returned' = lastReport /\ UNCHANGED <<dirty, lastReport>>
    ELSE detected(computeReport(files, folders, metadata, settings, attachmentRules))

\* detectReport(force)
detectReport(force) ==
  IF ~force /\ ~dirty /\ lastReport # <<>>
    THEN returned' = lastReport /\ UNCHANGED <<dirty, lastReport>>
    ELSE detected(computeReport(files, folders, metadata, settings, attachmentRules))

\* .map((p) => ({ from: normalizePath(p.virtualFrom), to: normalizePath(p.path) }))
toMoves(pv) ==
  [i \in 1..Len(pv) |->
     [from |-> normalizePath(pv[i].virtualFrom), to |-> normalizePath(pv[i].path)]]

\* the move list applyPlan forms from a report
movesOf(report) ==
  toMoves(SelectSeq(report.preview, LAMBDA q : q.isPreview /\ q.virtualFrom # <<>>))

\* the folders ensureFolderExists creates for folderPath: each prefix of
\* the path at which nothing exists
prefixesOf(parts) == {join(SubSeq(parts, 1, k)) : k \in 1..Len(parts)}

missingFolders(fs, fds, folderPath) ==
  prefixesOf(SelectSeq(split(normalizePath(folderPath)), LAMBDA x : x # <<>>)) \ (fs \cup fds)

\* vault.rename(file, to) succeeds: the file is still there, nothing is at
\* the destination, and the destination folder exists
renameOk(fs, fds, from, to) ==
  /\ from \in fs
  /\ to \notin fs
  /\ to \notin fds
  /\ (dirname(to) = <<>> \/ dirname(to) \in fds)

\* the path a move takes its file from: mv.from in applyPlan, mv.to in
\* undoLastOperation
srcOf(pr, mv) == IF pr.op = "apply" THEN mv.from ELSE mv.to

\* a restore loop that renames towards mv.to, as the apply loop does
dstOfApply(pr, mv) == mv.to

dstOf(pr, mv) == IF pr.op = "apply" THEN mv.to ELSE mv.from

\* a move loop that stops at the first move whose source is missing
advanceAbort(pr, fs) ==
  IF pr.idx > Len(pr.moves) THEN [pr EXCEPT !.pc = "end"]
  ELSE IF srcOf(pr, pr.moves[pr.idx]) \in fs
    THEN [pr EXCEPT !.pc = "run", !.attempted = Append(@, pr.moves[pr.idx])]
    ELSE [pr EXCEPT !.pc = "end", !.fail = @ + 1, !.idx = @ + 1,
                    !.attempted = Append(@, pr.moves[pr.idx])]

\* the synchronous part of the move loop: the moves whose source is not a
\* file are counted as failed, up to the first move whose source exists
\* (pc "run") or the end of the list (pc "end")
RECURSIVE advance(_, _)
advance(pr, fs) ==
  IF pr.idx > Len(pr.moves) THEN [pr EXCEPT !.pc = "end"]
  ELSE IF srcOf(pr, pr.moves[pr.idx]) \in fs
    THEN [pr EXCEPT !.pc = "run", !.attempted = Append(@, pr.moves[pr.idx])]
    ELSE advance([pr EXCEPT !.fail = @ + 1, !.idx = @ + 1,
                            !.attempted = Append(@, pr.moves[pr.idx])], fs)

\* undoHistory.push(entry) followed by the eviction loop of applyPlan
evict(h) ==
  IF Len(h) > MAX_UNDO_HISTORY THEN SubSeq(h, Len(h) - MAX_UNDO_HISTORY + 1, Len(h)) ELSE h

pushBounded(h, entry) == evict(Append(h, entry))

\* history bookkeeping: a vault change not made by call p marks the
\* round trips in progress as disturbed
taintEntry(e) == [e EXCEPT !.clean = FALSE]

taintHistory(h) == [i \in 1..Len(h) |-> taintEntry(h[i])]

taintProc(pr) ==
  [pr EXCEPT !.cleanRun = FALSE,
             !.entry = IF @ = <<>> THEN @ ELSE <<taintEntry(@[1])>>]

taintProcs(ps, p) == [q \in Procs |-> IF q = p THEN ps[q] ELSE taintProc(ps[q])]

taintAll(ps) == [q \in Procs |-> taintProc(ps[q])]

(***************************************************************************)
(* applyPlan and undoLastOperation                                         *)
(***************************************************************************)
\* the undo entry applyPlan pushes; `pre` and `clean` are history variables
entryOf(pr) ==
  [timestamp |-> clock + 1, moves |-> pr.successfulMoves,
   pre |-> pr.preFiles, clean |-> pr.cleanRun]

\* the end of applyPlan after the move loop when a move succeeded: the undo
\* entry is pushed
ApplyEndPush(p, pr, ps, h, entry) ==
  /\ undoHistory' = h
  /\ clock' = clock + 1
  /\ procs' = [ps EXCEPT ![p] = [pr EXCEPT !.pc = "done", !.outcome = "finished",
                                           !.pushed = <<entry>>,
                                           !.histAtEnd = h, !.endFiles = files']]

\* the end of applyPlan after the move loop; ps and hist are the other
\* calls and the history as the last step has left them
ApplyEnd(p, pr, ps, hist) ==
  /\ IF Len(pr.successfulMoves) > 0
       THEN ApplyEndPush(p, pr, ps, pushBounded(hist, entryOf(pr)), entryOf(pr))
       ELSE /\ undoHistory' = hist
            /\ clock' = clock
            /\ procs' = [ps EXCEPT ![p] = [pr EXCEPT !.pc = "done", !.outcome = "finished",
                                                     !.histAtEnd = hist, !.endFiles = files']]
  /\ dirty' = TRUE
  /\ markDirtyTimer(TRUE)

\* an end of undoLastOperation that puts the entry back when a restore failed
UndoEndPutBack(p, pr, ps, hist) ==
  /\ undoHistory' = IF pr.fail > 0 THEN Append(hist, pr.entry[1]) ELSE hist
  /\ clock' = clock
  /\ procs' = [ps EXCEPT ![p] = [pr EXCEPT !.pc = "done", !.outcome = "finished",
                                           !.histAtEnd = undoHistory', !.endFiles = files']]
  /\ dirty' = TRUE
  /\ markDirtyTimer(TRUE)

\* the end of undoLastOperation after the restore loop
UndoEnd(p, pr, ps, hist) ==
  /\ undoHistory' = hist
  /\ clock' = clock
  /\ procs' = [ps EXCEPT ![p] = [pr EXCEPT !.pc = "done", !.outcome = "finished",
                                           !.histAtEnd = hist, !.endFiles = files']]
  /\ dirty' = TRUE
  /\ markDirtyTimer(TRUE)

\* the move loop goes on from the state pr of call p: to its end, or to its
\* next await.  `changed` tells that the step before changed the vault: the
\* vault event marks the plugin dirty and arms the timer.
continue(p, pr, changed, ps, hist) ==
  IF pr.pc = "end"
    THEN IF pr.op = "apply" THEN ApplyEnd(p, pr, ps, hist) ELSE UndoEnd(p, pr, ps, hist)
    ELSE /\ undoHistory' = hist
         /\ clock' = clock
         /\ procs' = [ps EXCEPT ![p] = pr]
         /\ dirty' = (dirty \/ changed)
         /\ IF changed THEN markDirtyTimer(FALSE) ELSE UNCHANGED <<refreshTimer, timers>>

\* applyPlan from the fresh report to the confirmation dialog (no caller
\* passes skipConfirm); without moves the call returns
ApplyPlanned(p, report, moves) ==
  procs' = [procs EXCEPT ![p] =
              [IdleProc EXCEPT !.op = "apply", !.report = <<report>>,
                               !.moves = moves,
                               !.pc = IF moves = <<>> THEN "done" ELSE "confirm",
                               !.outcome = IF moves = <<>> THEN "nomoves" ELSE "",
                               !.histAtCall = undoHistory,
                               !.histAtEnd = undoHistory]]

\* applyPlan is called: the forced detection and the move list
ApplyBegin(p) ==
  /\ UNCHANGED called
  /\ freeSlot(procs, p)
  /\ opCount < MaxOps
  /\ detectReport(TRUE)
  /\ ApplyPlanned(p, returned'[1], movesOf(returned'[1]))
  /\ opCount' = opCount + 1
  /\ UNCHANGED <<files, folders, metadata, settings, attachmentRules, refreshTimer, timers,
                 undoHistory, clock>>

\* a dialog whose answer is not looked at
declinedNever(confirmed) == FALSE

\* `if (!confirmed)` after the dialog
declined(confirmed) == ~confirmed

\* the user's answer, as the history of a call records it
answerOf(confirmed) == IF confirmed THEN "yes" ELSE "no"

\* a declined undo that does not put the entry back
pushBackDropped(h, entry) == h

\* this.undoHistory.push(entry) of a declined undo
pushBack(h, entry) == Append(h, entry)

\* the user answers the dialog of applyPlan; when confirmed the loop runs up
\* to its first await
ApplyConfirm(p, confirmed) ==
  /\ UNCHANGED called
  /\ procs[p].op = "apply"
  /\ procs[p].pc = "confirm"
  /\ UNCHANGED <<files, folders, metadata, settings, attachmentRules, lastReport, returned,
                 opCount>>
  /\ IF declined(confirmed)
       THEN /\ UNCHANGED <<undoHistory, clock, dirty, refreshTimer, timers>>
            /\ procs' = [procs EXCEPT ![p] = [@ EXCEPT !.pc = "done", !.outcome = "declined",
                                                       !.answered = answerOf(confirmed),
                                                       !.histAtAnswer = undoHistory,
                                                       !.histAtEnd = undoHistory']]
       ELSE continue(p, advance([procs[p] EXCEPT !.idx = 1, !.preFiles = files,
                                                 !.answered = answerOf(confirmed),
                                                 !.histAtAnswer = undoHistory,
                                                 !.cleanRun = TRUE], files),
                     FALSE, procs, undoHistory)

\* the bookkeeping of one loop iteration of call pr for its move mv: the
\* counts and the successful moves are the program's, the rest is history
counted(pr, mv, newFolders, okR) ==
  [pr EXCEPT !.issued = Append(@, [from |-> srcOf(pr, mv), to |-> dstOf(pr, mv)]),
             !.created = @ \cup newFolders,
             !.renamed = IF okR THEN Append(@, [from |-> srcOf(pr, mv), to |-> dstOf(pr, mv)])
                                ELSE @,
             !.successfulMoves = IF okR /\ pr.op = "apply" THEN Append(@, mv) ELSE @,
             !.ok = IF okR THEN @ + 1 ELSE @,
             !.fail = IF okR THEN @ ELSE @ + 1,
             !.idx = @ + 1]

\* the outcome of vault.rename(src, dst) is known: the vault changes, the
\* counts are kept and the loop goes on
moved(p, mv, src, dst, newFolders, okR) ==
  /\ files' = IF okR THEN (files \ {src}) \cup {dst} ELSE files
  /\ folders' = folders \cup newFolders
  /\ continue(p, advance(counted(procs[p], mv, newFolders, okR), files'),
              newFolders # {} \/ okR,
              IF newFolders # {} \/ okR THEN taintProcs(procs, p) ELSE procs,
              IF newFolders # {} \/ okR THEN taintHistory(undoHistory) ELSE undoHistory)

\* ensureFolderExists(dirname(dst)) has created newFolders: vault.rename
renameStep(p, mv, src, dst, newFolders) ==
  moved(p, mv, src, dst, newFolders, renameOk(files, folders \cup newFolders, src, dst))

\* one iteration of a move loop from its await to the next one:
\* ensureFolderExists, vault.rename, the counting, and the synchronous run
\* to the next move whose source exists or to the end of the function
moveStep(p, mv) ==
  renameStep(p, mv, srcOf(procs[p], mv), dstOf(procs[p], mv),
             missingFolders(files, folders, dirname(dstOf(procs[p], mv))))

\* one iteration of the move loop of applyPlan
ApplyStep(p) ==
  /\ UNCHANGED called
  /\ procs[p].op = "apply"
  /\ procs[p].pc = "run"
  /\ moveStep(p, procs[p].moves[procs[p].idx])
  /\ UNCHANGED <<metadata, settings, attachmentRules, lastReport, returned, opCount>>

\* undoLastOperation is called: the last entry is popped, up to the
\* confirmation dialog
UndoBegin(p) ==
  /\ UNCHANGED called
  /\ freeSlot(procs, p)
  /\ opCount < MaxOps
  /\ IF undoHistory = <<>>
       THEN /\ procs' = [procs EXCEPT ![p] =
                          [IdleProc EXCEPT !.op = "undo", !.pc = "done",
                                           !.outcome = "nothing"]]
            /\ undoHistory' = undoHistory
       ELSE /\ undoHistory' = SubSeq(undoHistory, 1, Len(undoHistory) - 1)
            /\ procs' = [procs EXCEPT ![p] =
                          [IdleProc EXCEPT !.op = "undo", !.pc = "confirm",
                                           !.entry = <<undoHistory[Len(undoHistory)]>>,
                                           !.moves = undoHistory[Len(undoHistory)].moves,
                                           !.histAtCall = undoHistory]]
  /\ opCount' = opCount + 1
  /\ UNCHANGED <<files, folders, metadata, settings, attachmentRules, dirty, lastReport,
                 returned, refreshTimer, timers, clock>>

\* the user answers the dialog of undoLastOperation: a declined undo pushes
\* the entry back, a confirmed one runs the restore loop up to its first
\* await
UndoConfirm(p, confirmed) ==
  /\ UNCHANGED called
  /\ procs[p].op = "undo"
  /\ procs[p].pc = "confirm"
  /\ UNCHANGED <<files, folders, metadata, settings, attachmentRules, lastReport, returned,
                 opCount>>
  /\ IF declined(confirmed)
       THEN /\ undoHistory' = pushBack(undoHistory, procs[p].entry[1])
            /\ procs' = [procs EXCEPT ![p] =
                           [@ EXCEPT !.pc = "done", !.outcome = "declined",
                                     !.answered = answerOf(confirmed),
                                     !.histAtAnswer = undoHistory,
                                     !.histAtEnd = undoHistory']]
            /\ UNCHANGED <<clock, dirty, refreshTimer, timers>>
       ELSE continue(p, advance([procs[p] EXCEPT !.idx = 1,
                                                 !.answered = answerOf(confirmed),
                                                 !.histAtAnswer = undoHistory], files),
                     FALSE, procs, undoHistory)

\* one iteration of the restore loop of undoLastOperation
UndoStep(p) ==
  /\ UNCHANGED called
  /\ procs[p].op = "undo"
  /\ procs[p].pc = "run"
  /\ moveStep(p, procs[p].moves[procs[p].idx])
  /\ UNCHANGED <<metadata, settings, attachmentRules, lastReport, returned, opCount>>

\* the promise of a finished call is settled: the call is gone
Return(p) ==
  /\ UNCHANGED called
  /\ procs[p].pc = "done"
  /\ procs' = [procs EXCEPT ![p] = IdleProc]
  /\ UNCHANGED <<files, folders, metadata, settings, attachmentRules, dirty, lastReport,
                 returned, refreshTimer, timers, undoHistory, clock, opCount>>

(***************************************************************************)
(* The environment: the user's own changes to the vault                    *)
(***************************************************************************)
\* the paths the user deletes files at
UserPaths == {<<"SETs", SLASH, "a.png">>}

\* the user deletes a file; the vault event handler of onload calls
\* markDirtyAndScheduleRefresh()
UserDelete(f) ==
  /\ UNCHANGED called
  /\ f \in files
  /\ files' = files \ {f}
  /\ dirty' = TRUE
  /\ markDirtyTimer(FALSE)
  /\ undoHistory' = taintHistory(undoHistory)
  /\ procs' = taintAll(procs)
  /\ UNCHANGED <<folders, metadata, settings, attachmentRules, lastReport, returned, clock,
                 opCount>>

\* the view rescans: AttachView.rescan(force) calls detectReport(force)
Detect(force) ==
  /\ UNCHANGED called
  /\ detectReport(force)
  /\ UNCHANGED <<files, folders, metadata, settings, attachmentRules, refreshTimer, timers,
                 undoHistory, procs, clock, opCount>>

(***************************************************************************)
(* Specification of the plugin: apply and undo calls, overlapping at their *)
(* awaits, over a vault the user also changes                              *)
(***************************************************************************)
PA(name) == <<"SETs", SLASH, name>>

NoLinks == [links |-> <<>>, embeds |-> <<>>, frontmatterLinks |-> <<>>]

\* a note that links b.png, an orphan a.png and an orphan c.png: three moves
VaultThree ==
  [files |-> {PA("n.md"), PA("a.png"), PA("b.png"), PA("c.png")},
   folders |-> {<<"SETs">>},
   metadata |-> (PA("n.md") :> [NoLinks EXCEPT !.links = << <<"b.png">> >>])]

\* three orphans of the same name in three folders: they all go to Draft/a.png
VaultSameName ==
  [files |-> {PA("n.md"), PA("a.png"), <<"SETs", SLASH, "sub", SLASH, "a.png">>,
              <<"SETs", SLASH, "x", SLASH, "a.png">>},
   folders |-> {<<"SETs">>, <<"SETs", SLASH, "sub">>, <<"SETs", SLASH, "x">>, <<"Draft">>},
   metadata |-> (PA("n.md") :> NoLinks)]

\* the vaults and settings the plugin starts with
SpecConfigs ==
  { [vault |-> VaultThree, settings |-> DEFAULT_SETTINGS],
    [vault |-> VaultSameName, settings |-> DEFAULT_SETTINGS],
    [vault |-> VaultSameName,
     settings |-> [DEFAULT_SETTINGS EXCEPT !.globalNameCheck = "off"]] }

\* the history left by k earlier applies that each moved SETs/a.png to the
\* staging folder (the user moved the file back by hand after each)
PastHistory(k) ==
  [i \in 1..k |->
     [timestamp |-> i,
      moves |-> <<[from |-> PA("a.png"), to |-> <<"Draft", SLASH, "a.png">>]>>,
      pre |-> {}, clean |-> FALSE]]

Init ==
  /\ \E c \in SpecConfigs :
       /\ files = c.vault.files
       /\ folders = c.vault.folders
       /\ metadata = c.vault.metadata
       /\ settings = c.settings
  /\ attachmentRules = compileAttachmentRules(settings)
  /\ dirty = TRUE
  /\ lastReport = <<>>
  /\ returned = <<>>
  /\ refreshTimer = <<>>
  /\ timers = {}
  /\ \E k \in {0, MAX_UNDO_HISTORY} : undoHistory = PastHistory(k) /\ clock = k
  /\ procs = [p \in Procs |-> IdleProc]
  /\ opCount = 0
  /\ called = <<>>

Next ==
  \/ \E p \in Procs : ApplyBegin(p)
  \/ \E p \in Procs, c \in BOOLEAN : ApplyConfirm(p, c)
  \/ \E p \in Procs : ApplyStep(p)
  \/ \E p \in Procs : UndoBegin(p)
  \/ \E p \in Procs, c \in BOOLEAN : UndoConfirm(p, c)
  \/ \E p \in Procs : UndoStep(p)
  \/ \E p \in Procs : Return(p)
  \/ \E f \in UserPaths : UserDelete(f)

Spec == Init /\ [][Next]_vars

(***************************************************************************)
(* Specification of detection: detectReport over the vaults made of a note *)
(* and any of five attachments, three of them of the same name, one at the *)
(* place the others are staged to, one of the same name in another case    *)
(***************************************************************************)
DetectFiles ==
  {PA("a.png"), PA("A.png"), <<"SETs", SLASH, "sub", SLASH, "a.png">>,
   <<"SETs", SLASH, "x", SLASH, "a.png">>, <<"Draft", SLASH, "a.png">>}

DetectFolders ==
  {<<"SETs">>, <<"SETs", SLASH, "sub">>, <<"SETs", SLASH, "x">>, <<"Draft">>}

\* the note links nothing, or links a.png by its name, or by the explicit
\* path other/a.png where no file is
DetectMetadata ==
  {PA("n.md") :> NoLinks,
   PA("n.md") :> [NoLinks EXCEPT !.links = << <<"a.png">> >>],
   PA("n.md") :> [NoLinks EXCEPT !.links = << <<"other", SLASH, "a.png">> >>]}

GlobalNameModes == {"off", "on-ignore-explicit", "on-even-explicit"}

InitDetect ==
  /\ \E S \in SUBSET DetectFiles : files = {PA("n.md")} \cup S
  /\ folders = DetectFolders
  /\ metadata \in DetectMetadata
  /\ \E m \in GlobalNameModes : settings = [DEFAULT_SETTINGS EXCEPT !.globalNameCheck = m]
  /\ attachmentRules = compileAttachmentRules(settings)
  /\ dirty = TRUE
  /\ lastReport = <<>>
  /\ returned = <<>>
  /\ refreshTimer = <<>>
  /\ timers = {}
  /\ undoHistory = <<>>
  /\ clock = 0
  /\ procs = [p \in Procs |-> IdleProc]
  /\ opCount = 0
  /\ called = <<>>

NextDetect ==
  \/ \E force \in BOOLEAN : Detect(force)
  \/ \E f \in DetectFiles : UserDelete(f)

SpecDetect == InitDetect /\ [][NextDetect]_vars

(***************************************************************************)
(* Detection over a vault with files in every zone and a note whose links  *)
(* are empty after parsing, repeated, missing, or point out of the         *)
(* workspace (SpecReport)                                                  *)
(***************************************************************************)
ReportFiles ==
  {PA("a.png"), <<"SETs", SLASH, "sub", SLASH, "b.png">>, PA("d.excalidraw.md"),
   <<"Draft", SLASH, "c.png">>, <<"y", SLASH, "x">>}

ReportFolders == {<<"SETs">>, <<"SETs", SLASH, "sub">>, <<"Draft">>, <<"y">>}

\* the cached links of the note SETs/n.md
ReportLinks ==
  {NoLinks,
   [NoLinks EXCEPT !.links = << <<"#", "Heading">>, <<"%20">>, <<"a.png", "#", "x">> >>],
   [NoLinks EXCEPT !.links = << <<"a.png">>, <<"c.png">> >>,
                   !.embeds = << <<"a.png">>, <<"c.png">> >>,
                   !.frontmatterLinks = << <<"a.png">> >>],
   [NoLinks EXCEPT !.links = << <<"y", SLASH, "x">>, <<"d.excalidraw.md">>, <<"c.png">> >>],
   [NoLinks EXCEPT !.links = << <<"gone", SLASH, "z.png">>, <<"z.png">> >>,
                   !.embeds = << <<"gone", SLASH, "z.png">> >>]}

ReportSettings ==
  {[DEFAULT_SETTINGS EXCEPT !.zoneB = b, !.planOutAttachments = out] :
     b \in {<<>>, <<"Draft">>}, out \in BOOLEAN}

InitReport ==
  /\ files = {PA("n.md")} \cup ReportFiles
  /\ folders = ReportFolders
  /\ \E links \in ReportLinks : metadata = (PA("n.md") :> links)
  /\ settings \in ReportSettings
  /\ attachmentRules = compileAttachmentRules(settings)
  /\ dirty = TRUE
  /\ lastReport = <<>>
  /\ returned = <<>>
  /\ refreshTimer = <<>>
  /\ timers = {}
  /\ undoHistory = <<>>
  /\ clock = 0
  /\ procs = [p \in Procs |-> IdleProc]
  /\ opCount = 0
  /\ called = <<>>

NextReport ==
  \/ \E force \in BOOLEAN : Detect(force)
  \/ \E f \in ReportFiles : UserDelete(f)

SpecReport == InitReport /\ [][NextReport]_vars

(***************************************************************************)
(* The classification of paths and the parsing of links, called directly   *)
(* on paths, rule texts and raw links of every shape (SpecClassify)        *)
(***************************************************************************)
\* the zone settings: the staging root beside or inside the workspace root,
\* an empty workspace root, extra-scan folders inside and outside the zones
ZoneRootsA == {<<>>, <<"SETs">>}

ZoneRootsB == {<<>>, <<"Draft">>, <<"SETs", SLASH, "Draft">>}

ExtraFolderLists ==
  {<<>>, << <<"SETs", SLASH, "x">> >>, << <<"Draft", SLASH, "x">>, <<"y">> >>}

ClassifySettings ==
  {[DEFAULT_SETTINGS EXCEPT !.zoneA = a, !.zoneB = b,
                            !.extraScanEnabled = en, !.extraScanFolders = xs] :
     a \in ZoneRootsA, b \in ZoneRootsB, en \in BOOLEAN, xs \in ExtraFolderLists}

\* paths in and out of every zone; "SETs2" is written <<"SETs", "2">>
ZonePaths ==
  {<<>>, <<"SETs">>, <<"Draft">>, PA("a.png"),
   <<"SETs", SLASH, "Draft", SLASH, "a.png">>, <<"SETs", SLASH, "x", SLASH, "a.png">>,
   <<"Draft", SLASH, "a.png">>, <<"Draft", SLASH, "x", SLASH, "a.png">>,
   <<"y", SLASH, "a.png">>, <<"a.png">>, <<"notes", SLASH, "a.png">>,
   <<"SETs", "2", SLASH, "a.png">>, <<"Draft", "2">>,
   <<"SETs", BACKSLASH, "Draft", BACKSLASH, "a.png">>,
   <<SLASH, "SETs", SLASH, SLASH, "a.png">>}

\* the texts of the attachment rules: the defaults, none, an invalid
\* pattern, a user pattern, both
RuleTexts ==
  {DEFAULT_ATTACHMENT_RULES, <<>>, <<"[">>, <<"^notes/">>, <<"[", "", "^notes/">>}

KindPaths ==
  {PA("a.png"), PA("n.md"), PA("d.excalidraw.md"), PA("D.EXCALIDRAW.MD"),
   PA("k.canvas.md"), <<"notes", SLASH, "n.md">>, <<"notes", SLASH, "a.png">>,
   <<"n.md">>, <<"d.excalidraw.md">>}

RawLinks ==
  {<<>>, <<" ">>, <<"a.png">>, <<" ", "a.png", " ">>,
   <<"folder", SLASH, "Note", " ", "Name", "#", "Heading", "^", "block", "|", "Display">>,
   <<"a.png", "|", "x", "#", "y">>, <<"a.png", "#", "x", "#", "y">>,
   <<"a.png", "^", "x", "|", "y">>, <<"a.png", "?", "x", "^", "y">>,
   <<"a.png", "?", "x">>, <<"a.png", " ", "#", "x">>,
   <<"#", "Heading">>, <<"|", "x">>, <<"^", "block">>, <<"?", "x">>,
   <<"folder", BACKSLASH, "a.png">>, <<"a", "%20", "b.png">>, <<"a", "%2520", "b.png">>,
   <<"a", "%", "b.png">>, <<"%20">>, <<"%20", "#", "x">>}

InitClassify ==
  /\ files = {}
  /\ folders = {}
  /\ metadata = <<>>
  /\ settings \in ClassifySettings
  /\ attachmentRules = compileAttachmentRules(settings)
  /\ dirty = TRUE
  /\ lastReport = <<>>
  /\ returned = <<>>
  /\ refreshTimer = <<>>
  /\ timers = {}
  /\ undoHistory = <<>>
  /\ clock = 0
  /\ procs = [p \in Procs |-> IdleProc]
  /\ opCount = 0
  /\ called = <<>>

\* the settings tab changes the rule text: saveSettings compiles the rules
\* and schedules a refresh
SaveRules(text) ==
  /\ settings' = [settings EXCEPT !.attachmentRulesText = text]
  /\ attachmentRules' = compileAttachmentRules(settings')
  /\ dirty' = TRUE
  /\ markDirtyTimer(TRUE)
  /\ UNCHANGED <<files, folders, metadata, lastReport, returned, undoHistory, procs,
                 clock, opCount, called>>

\* the record of a call that has returned, with the settings it ran under
callOf(fn, arg, out) == <<[fn |-> fn, arg |-> arg, out |-> out, settings |-> settings]>>

\* a method without side effects leaves the plugin and the vault as they were
pluginUnchanged ==
  UNCHANGED <<files, folders, metadata, settings, attachmentRules, dirty, lastReport,
              returned, refreshTimer, timers, undoHistory, procs, clock, opCount>>

CallZoneOf(path) ==
  /\ called' = callOf("zoneOf", path, zoneOf(settings, path))
  /\ pluginUnchanged

CallKindOf(path) ==
  /\ called' = callOf("kindOf", path, kindOf(attachmentRules, path))
  /\ pluginUnchanged

\* the result of parseLink and what the backlink loop makes of it
parsedLink(cleaned) == [cleaned |-> cleaned, explicit |-> isExplicit(cleaned)]

CallParseLink(raw) ==
  /\ called' = callOf("parseLink", raw, parsedLink(parseLink(raw)))
  /\ pluginUnchanged

NextClassify ==
  \/ \E text \in RuleTexts : SaveRules(text)
  \/ \E path \in ZonePaths : CallZoneOf(path)
  \/ \E path \in KindPaths : CallKindOf(path)
  \/ \E raw \in RawLinks : CallParseLink(raw)

SpecClassify == InitClassify /\ [][NextClassify]_vars

(***************************************************************************)
(* The planning of one attachment, called directly on entries with one,    *)
(* two and three backlinks under every placement and multi-backlink policy *)
(* (SpecPlan)                                                              *)
(***************************************************************************)
PlanSettings ==
  {[DEFAULT_SETTINGS EXCEPT !.placement = [mode |-> m, specifiedFolder |-> sf,
                                           subfolderName |-> sub],
                            !.multiBacklinkPolicy = pol] :
     m \in {"vault-folder", "specified-folder", "same-folder-as-note", "subfolder-under-note"},
     sf \in {<<>>, <<"attachments">>},
     sub \in {<<>>, <<"assets">>},
     pol \in {"unchanged", "lca", "pick-first"}}

\* the notes that refer to the attachment; "webx" is written <<"web", "x">>
PlanNotes ==
  {<<"proj", SLASH, "web", SLASH, "n.md">>, <<"proj", SLASH, "api", SLASH, "m.md">>,
   <<"proj", SLASH, "web", "x", SLASH, "n.md">>, <<"proj", SLASH, "web", SLASH, "m.md">>,
   <<"notes", SLASH, "n.md">>, <<"n.md">>}

\* a Backlink by the name of the file, or by the explicit path sub/diagram.png
PlanBacklinksByName ==
  {[from |-> n, raw |-> <<"diagram.png">>, cleaned |-> <<"diagram.png">>,
    explicitPath |-> <<>>] : n \in PlanNotes}

PlanBacklinks ==
  PlanBacklinksByName
  \cup {[from |-> n, raw |-> <<"sub", SLASH, "diagram.png">>,
          cleaned |-> <<"sub", SLASH, "diagram.png">>,
          explicitPath |-> <<"sub", SLASH, "diagram.png">>] :
         n \in {<<"proj", SLASH, "web", SLASH, "n.md">>, <<"n.md">>}}

\* the lists of backlinks of an entry: two from different notes, or three
\* by name from the notes of proj and one other note
PlanBacklinkLists ==
  {l \in {<<a, b>> : a \in PlanBacklinks, b \in PlanBacklinks} : l[1].from # l[2].from}
  \cup {l \in {<<a, b, c>> : a \in PlanBacklinksByName, b \in PlanBacklinksByName,
                             c \in PlanBacklinksByName} :
          /\ l[1].from = <<"proj", SLASH, "web", SLASH, "n.md">>
          /\ l[2].from = <<"proj", SLASH, "api", SLASH, "m.md">>
          /\ l[3].from \notin {l[1].from, l[2].from}}

PlanPaths == {PA("diagram.png"), <<"diagram.png">>}

InitPlan ==
  /\ files = {}
  /\ folders = {}
  /\ metadata = <<>>
  /\ settings \in PlanSettings
  /\ attachmentRules = compileAttachmentRules(settings)
  /\ dirty = TRUE
  /\ lastReport = <<>>
  /\ returned = <<>>
  /\ refreshTimer = <<>>
  /\ timers = {}
  /\ undoHistory = <<>>
  /\ clock = 0
  /\ procs = [p \in Procs |-> IdleProc]
  /\ opCount = 0
  /\ called = <<>>

\* the entry of the attachment at path p with the backlinks bls
referenced(st, rules, p, bls) == [newEntry(st, rules, p) EXCEPT !.referencedByNotes = bls]

planTargetForOneBacklinkOf(st, e) == planTargetForOneBacklink(st, e, e.referencedByNotes[1])

CallPlanOne(p, bl) ==
  /\ called' = callOf("planTargetForOneBacklink", referenced(settings, attachmentRules, p, <<bl>>),
                      planTargetForOneBacklinkOf(settings,
                         referenced(settings, attachmentRules, p, <<bl>>)))
  /\ pluginUnchanged

CallPlanMulti(p, bls) ==
  /\ called' = callOf("planTargetForMultiBacklink", referenced(settings, attachmentRules, p, bls),
                      planTargetForMultiBacklink(settings,
                         referenced(settings, attachmentRules, p, bls)))
  /\ pluginUnchanged

NextPlan ==
  \/ \E p \in PlanPaths, bl \in PlanBacklinks : CallPlanOne(p, bl)
  \/ \E p \in PlanPaths, bls \in PlanBacklinkLists : CallPlanMulti(p, bls)

SpecPlan == InitPlan /\ [][NextPlan]_vars

(***************************************************************************)
(* loadSettings at onload, on persisted data with and without the legacy   *)
(* field zoneC (SpecLoad).  The persisted data and the settings are        *)
(* records; a field that is absent is not in the domain of the record.     *)
(***************************************************************************)
\* the values of the legacy field: empty, blank, a folder, a folder in blanks
LegacyFolders == {<<>>, <<" ">>, <<"old">>, <<" ", "old", " ">>}

\* the lists of extra-scan folders found in persisted data
PersistedLists == {<<>>, << <<"old">> >>, << <<"y">> >>, << <<"y">>, <<"old">> >>}

\* a record with the field named k alone, or no field when v is <<>> (absent)
fieldOf(k, v) == IF v = <<>> THEN <<>> ELSE (k :> v[1])

\* what loadData finds: every field is optional
PersistedData ==
  {fieldOf("zoneC", c) @@ fieldOf("extraScanFolders", xs) @@ fieldOf("extraScanEnabled", en)
     @@ fieldOf("attachmentRulesText", t) :
     c \in {<<>>} \cup {<<z>> : z \in LegacyFolders},
     xs \in {<<>>} \cup {<<l>> : l \in PersistedLists},
     en \in {<<>>, <<FALSE>>, <<TRUE>>},
     t \in {<<>>, << <<"">> >>, << <<"^notes/">> >>}}

\* the migration of the legacy folder oldZoneC into the list
absorbLegacy(s, oldZoneC) ==
  IF \E i \in 1..Len(s.extraScanFolders) : s.extraScanFolders[i] = oldZoneC
    THEN s
    ELSE [s EXCEPT !.extraScanFolders = <<oldZoneC>>, !.extraScanEnabled = TRUE]

\* delete this.settings.zoneC
dropLegacy(s) == [k \in DOMAIN s \ {"zoneC"} |-> s[k]]

\* if (!this.settings.attachmentRulesText?.trim()) ...: the default rules
\* replace a text without a rule
ensureRulesText(s) ==
  IF \A i \in 1..Len(s.attachmentRulesText) : s.attachmentRulesText[i] = ""
    THEN [s EXCEPT !.attachmentRulesText = DEFAULT_ATTACHMENT_RULES]
    ELSE s

\* loaded && typeof loaded.zoneC === "string" && loaded.zoneC.trim()
hasLegacy(loaded) == "zoneC" \in DOMAIN loaded /\ trim(loaded.zoneC) # <<>>

\* loadSettings on the persisted data `loaded`: the settings it leaves, the
\* number of saveData calls it made and the data persisted after it
loadSettings(loaded) ==
  IF hasLegacy(loaded)
    THEN [settings |-> ensureRulesText(dropLegacy(absorbLegacy(loaded @@ DEFAULT_SETTINGS,
                                                                trim(loaded.zoneC)))),
          saves |-> 1,
          data |-> dropLegacy(absorbLegacy(loaded @@ DEFAULT_SETTINGS, trim(loaded.zoneC)))]
    ELSE [settings |-> ensureRulesText(loaded @@ DEFAULT_SETTINGS),
          saves |-> 0,
          data |-> loaded]

InitLoad ==
  /\ files = {}
  /\ folders = {}
  /\ metadata = <<>>
  /\ settings = DEFAULT_SETTINGS
  /\ attachmentRules = compileAttachmentRules(settings)
  /\ dirty = TRUE
  /\ lastReport = <<>>
  /\ returned = <<>>
  /\ refreshTimer = <<>>
  /\ timers = {}
  /\ undoHistory = <<>>
  /\ clock = 0
  /\ procs = [p \in Procs |-> IdleProc]
  /\ opCount = 0
  /\ called = <<>>

\* the plugin after a start: the fields a start leaves as constructed
startUnchanged ==
  UNCHANGED <<files, folders, metadata, dirty, lastReport, returned, refreshTimer, timers,
              undoHistory, procs, clock, opCount>>

\* onload on the persisted data d: loadSettings, then compileAttachmentRules
Load(d) ==
  /\ called' = <<[fn |-> "loadSettings", arg |-> d, out |-> loadSettings(d),
                  again |-> FALSE]>>
  /\ settings' = loadSettings(d).settings
  /\ attachmentRules' = compileAttachmentRules(loadSettings(d).settings)
  /\ startUnchanged

\* the next start of the plugin, on the data the last start left persisted
Reload ==
  /\ called # <<>>
  /\ called' = <<[fn |-> "loadSettings", arg |-> called[1].out.data,
                  out |-> loadSettings(called[1].out.data),
                  again |-> TRUE]>>
  /\ settings' = loadSettings(called[1].out.data).settings
  /\ attachmentRules' = compileAttachmentRules(loadSettings(called[1].out.data).settings)
  /\ startUnchanged

NextLoad ==
  \/ \E d \in PersistedData : Load(d)
  \/ Reload

SpecLoad == InitLoad /\ [][NextLoad]_vars

(***************************************************************************)
(* Vault events, settings saves, the refresh timer and the cached report:  *)
(* a vault of a note and one or two attachments that the user changes      *)
(* while a view is open and applyPlan runs (SpecEvents)                    *)
(***************************************************************************)
\* the files the user creates, and the links the note is modified to hold
EventPaths == {PA("b.png")}

EventLinks == {NoLinks, [NoLinks EXCEPT !.links = << <<"a.png">> >>]}

EventRuleTexts == {DEFAULT_ATTACHMENT_RULES, <<"^notes/">>}

InitEvents ==
  /\ files = {PA("n.md"), PA("a.png")}
  /\ folders = {<<"SETs">>, <<"Draft">>}
  /\ metadata = (PA("n.md") :> NoLinks)
  /\ settings = DEFAULT_SETTINGS
  /\ attachmentRules = compileAttachmentRules(settings)
  /\ dirty = TRUE
  /\ lastReport = <<>>
  /\ returned = <<>>
  /\ refreshTimer = <<>>
  /\ timers = {}
  /\ undoHistory = <<>>
  /\ clock = 0
  /\ procs = [p \in Procs |-> IdleProc]
  /\ opCount = 0
  /\ called = <<>>

\* history: the vault events that came one after the other with a timeout
\* pending, the one of this call included
burstOf(c, ts) ==
  IF c # <<>> /\ c[1].fn = "markDirtyAndScheduleRefresh" /\ ts # {}
    THEN c[1].burst + 1 ELSE 1

\* history: the record of the vault event handler, called without argument
eventCall ==
  <<[fn |-> "markDirtyAndScheduleRefresh", arg |-> FALSE, burst |-> burstOf(called, timers)]>>

\* history: the record of the timeout callback that ends the burst
refreshCall(force) ==
  <<[fn |-> "refreshOpenViews", arg |-> force,
     burst |-> IF called # <<>> /\ called[1].fn = "markDirtyAndScheduleRefresh"
                 THEN called[1].burst ELSE 0]>>

\* the user creates a file: vault.on("create")
OnCreate(f) ==
  /\ opCount < MaxOps
  /\ f \notin files
  /\ files' = files \cup {f}
  /\ dirty' = TRUE
  /\ markDirtyTimer(FALSE)
  /\ called' = eventCall
  /\ opCount' = opCount + 1
  /\ undoHistory' = taintHistory(undoHistory)
  /\ procs' = taintAll(procs)
  /\ UNCHANGED <<folders, metadata, settings, attachmentRules, lastReport, returned, clock>>

\* the user edits the note, whose cached links become `links`:
\* vault.on("modify")
OnModify(links) ==
  /\ opCount < MaxOps
  /\ PA("n.md") \in files
  /\ metadata' = (PA("n.md") :> links)
  /\ dirty' = TRUE
  /\ markDirtyTimer(FALSE)
  /\ called' = eventCall
  /\ opCount' = opCount + 1
  /\ undoHistory' = taintHistory(undoHistory)
  /\ procs' = taintAll(procs)
  /\ UNCHANGED <<files, folders, settings, attachmentRules, lastReport, returned, clock>>

\* the settings tab saves a rule text: saveSettings
OnSave(text) ==
  /\ opCount < MaxOps
  /\ settings' = [settings EXCEPT !.attachmentRulesText = text]
  /\ attachmentRules' = compileAttachmentRules(settings')
  /\ dirty' = TRUE
  /\ markDirtyTimer(TRUE)
  /\ opCount' = opCount + 1
  /\ UNCHANGED <<files, folders, metadata, lastReport, returned, undoHistory, procs,
                 clock, called>>

\* the timeout t fires: refreshTimer = null, and refreshOpenViews(force)
\* makes the open view rescan, which calls detectReport(force)
TimerFire(t) ==
  /\ t \in timers
  /\ timers' = timers \ {t}
  /\ refreshTimer' = <<>>
  /\ detectReport(t.force)
  /\ called' = refreshCall(t.force)
  /\ UNCHANGED <<files, folders, metadata, settings, attachmentRules, undoHistory, procs,
                 clock, opCount>>

\* the timeouts that may fire: the pending ones
Timeouts == {[id |-> i, force |-> f] : i \in 1..(MaxOps + 4), f \in BOOLEAN}

NextEvents ==
  \/ \E f \in EventPaths : OnCreate(f)
  \/ \E links \in EventLinks : OnModify(links)
  \/ \E text \in EventRuleTexts : OnSave(text)
  \/ \E f \in EventPaths : UserDelete(f)
  \/ \E t \in Timeouts : TimerFire(t)
  \/ \E force \in BOOLEAN : Detect(force)
  \/ \E p \in Procs : ApplyBegin(p)
  \/ \E p \in Procs, c \in BOOLEAN : ApplyConfirm(p, c)
  \/ \E p \in Procs : ApplyStep(p)
  \/ \E p \in Procs : Return(p)

SpecEvents == InitEvents /\ [][NextEvents]_vars

\* The step of TimerFire as the window sees it: a pending timeout is taken off
\* and its callback runs, whatever report the rescan of the callback leaves.
\* Within SpecEvents the steps of expires are exactly the steps of TimerFire.
expires ==
  \E t \in timers :
    /\ timers' = timers \ {t}
    /\ refreshTimer' = <<>>
    /\ (dirty' = FALSE \/ dirty' # FALSE)
    /\ (lastReport' = lastReport \/ lastReport' # lastReport)
    /\ (returned' = returned \/ returned' # returned)
    /\ called' = refreshCall(t.force)
    /\ UNCHANGED <<files, folders, metadata, settings, attachmentRules,
                   undoHistory, procs, clock, opCount>>

\* The window runs every pending timeout: a timeout that stays pending expires.
SpecEventsLive == SpecEvents /\ WF_vars(expires)

(***************************************************************************)
(* Properties of applyPlan and undoLastOperation (under Spec)              *)
(***************************************************************************)
\* the report of an applyPlan call plans the move mv: the entry at mv.from
\* has no conflict tag and a move action whose target is mv.to
plansMove(report, st, mv) ==
  \E i \in 1..Len(report.entries) :
     /\ report.entries[i].path = mv.from
     /\ ~isConflict(report.entries[i])
     /\ report.entries[i].action.type \in {"moveTo", "moveToB"}
     /\ targetOf(st, report.entries[i]) = <<TRUE, mv.to>>

\* C1: applyPlan never moves a file that is marked C: for every rename
\* {from, to} an applyPlan call issues, the entry at path `from` in the
\* report of that call carries no conflict tag and has a move action whose
\* resolved target is `to`.
AppliedMovesArePlanned ==
  \A p \in Procs :
     procs[p].op = "apply" =>
       \A i \in 1..Len(procs[p].issued) :
          plansMove(procs[p].report[1], settings, procs[p].issued[i])

\* C5: in every reachable state, whatever the overlap of applyPlan and
\* undoLastOperation calls, the undo history holds at most
\* MAX_UNDO_HISTORY entries.
HistoryBounded == Len(undoHistory) <= MAX_UNDO_HISTORY

\* the entries of history h that carry the timestamp of entry e
sameStamp(h, e) == {i \in 1..Len(h) : h[i].timestamp = e.timestamp}

\* C6: a confirmed applyPlan over n moves of which k fail has attempted
\* every move once and in order, counts n-k successes and k failures, and
\* has pushed one undo entry if and only if n-k > 0, whose moves are the
\* renames that succeeded, in execution order.
ApplyAttemptsEveryMove ==
  \A p \in Procs :
     (procs[p].op = "apply" /\ procs[p].outcome = "finished") =>
       /\ procs[p].attempted = procs[p].moves
       /\ procs[p].ok = Len(procs[p].renamed)
       /\ procs[p].fail = Len(procs[p].moves) - Len(procs[p].renamed)
       /\ (procs[p].pushed # <<>>) <=> (Len(procs[p].renamed) > 0)
       /\ procs[p].pushed # <<>> =>
            /\ procs[p].pushed[1].moves = procs[p].renamed
            /\ procs[p].histAtEnd[Len(procs[p].histAtEnd)] = procs[p].pushed[1]
            /\ Cardinality(sameStamp(procs[p].histAtEnd, procs[p].pushed[1])) = 1

\* an applyPlan over three moves has finished with two renames done and one
\* move failed
ApplyFinishedTwoOfThree ==
  \E p \in Procs :
     /\ procs[p].op = "apply"
     /\ procs[p].outcome = "finished"
     /\ Len(procs[p].moves) = 3
     /\ procs[p].ok = 2
     /\ procs[p].fail = 1
     /\ procs[p].pushed # <<>>

\* C7: round trip.  When a confirmed undoLastOperation has finished and the
\* vault was changed by nothing else since the applyPlan that pushed the
\* entry started moving, every moved file is back at its original path,
\* the file set is the one before the apply, and the entry is no longer in
\* the history.
RoundTripRestores ==
  \A p \in Procs :
     (procs[p].op = "undo" /\ procs[p].outcome = "finished" /\ procs[p].entry[1].clean) =>
       /\ procs[p].endFiles = procs[p].entry[1].pre
       /\ \A i \in 1..Len(procs[p].moves) :
             /\ procs[p].moves[i].from \in procs[p].endFiles
             /\ procs[p].moves[i].to \notin procs[p].endFiles
       /\ sameStamp(procs[p].histAtEnd, procs[p].entry[1]) = {}

\* an undo has finished the round trip of an apply that moved two files or
\* more, with no other change to the vault
RoundTripDone ==
  \E p \in Procs :
     /\ procs[p].op = "undo"
     /\ procs[p].outcome = "finished"
     /\ procs[p].entry[1].clean
     /\ Len(procs[p].moves) >= 2
     /\ Len(procs[p].renamed) = Len(procs[p].moves)

\* the UndoEntry values of history h: the timestamp and the moves of each
\* entry, without the history variables
undoEntries(h) == [i \in 1..Len(h) |-> [timestamp |-> h[i].timestamp, moves |-> h[i].moves]]

IdleApplyTouchesNothing ==
  \A p \in Procs :
     (procs[p].op = "apply" /\ (procs[p].moves = <<>> \/ procs[p].answered = "no")) =>
       /\ procs[p].issued = <<>>
       /\ procs[p].created = {}
       /\ procs[p].pushed = <<>>
       /\ procs[p].moves = <<>> => procs[p].histAtEnd = procs[p].histAtCall
       /\ procs[p].answered = "no" => procs[p].histAtEnd = procs[p].histAtAnswer

\* an applyPlan with moves to make has been declined
ApplyDeclined ==
  \E p \in Procs :
     /\ procs[p].op = "apply"
     /\ procs[p].answered = "no"
     /\ procs[p].moves # <<>>

(***************************************************************************)
(* Properties of the reports (under SpecDetect)                            *)
(***************************************************************************)
\* C2: in every report returned by detectReport no two entries of
\* report.preview have the same path.
PreviewPathsDistinct ==
  returned # <<>> =>
    \A i, j \in 1..Len(returned[1].preview) :
       i # j => returned[1].preview[i].path # returned[1].preview[j].path

\* C3: in every report returned by detectReport every entry tagged
\* conflict-target-occupied or conflict-ambiguous-name has action Keep,
\* in report.entries and in report.preview.
ConflictTaggedAreKept ==
  returned # <<>> =>
    /\ \A i \in 1..Len(returned[1].entries) :
          isConflict(returned[1].entries[i]) => returned[1].entries[i].action.type = "keep"
    /\ \A i \in 1..Len(returned[1].preview) :
          isConflict(returned[1].preview[i]) => returned[1].preview[i].action.type = "keep"

\* the report holds the entry at `path` tagged conflict-target-occupied
\* with action Keep, and no preview entry made from it
keptOccupied(report, path) ==
  /\ \E i \in 1..Len(report.entries) :
        /\ report.entries[i].path = path
        /\ hasTag(report.entries[i], CTO)
        /\ report.entries[i].action.type = "keep"
  /\ \A i \in 1..Len(report.preview) : report.preview[i].virtualFrom # path

\* C4: whenever a candidate's target collides with the target another
\* candidate has claimed in the same pass, or with an existing file that is
\* a tracked entry, both entries end tagged conflict-target-occupied with
\* action Keep and report.preview has no entry whose virtualFrom is either.
CollidingPairsAreKept ==
  returned # <<>> =>
    \A h \in returned[1].hits :
       h.kind \in {"claimed", "occupied"} =>
         keptOccupied(returned[1], h.a) /\ keptOccupied(returned[1], h.b)

(***************************************************************************)
(* Properties of the classification and of parseLink (under SpecClassify)  *)
(***************************************************************************)
\* the folder names of a path: what is between its separators
segments(s) == SelectSeq(split(replaceBackslash(s)), LAMBDA piece : piece # <<>>)

\* path p is the non-empty root or lies below it, folder name by folder name
inRoot(p, root) == segments(root) # <<>> /\ startsWith(segments(p), segments(root))

inExtraScan(st, p) ==
  st.extraScanEnabled /\ \E i \in 1..Len(st.extraScanFolders) : inRoot(p, st.extraScanFolders[i])

zoneByPriority(st, p) ==
  IF inRoot(p, st.zoneB) THEN "B"
  ELSE IF inExtraScan(st, p) THEN "C"
  ELSE IF segments(st.zoneA) = <<>> \/ inRoot(p, st.zoneA) THEN "A"
  ELSE "OUT"

\* C11: zoneOf returns one zone for every path, decided in the priority B,
\* C, A, OUT: B for a path equal to or under the staging root even when
\* that root is inside the workspace root, A for the rest of the workspace
\* root, and never OUT when the workspace root is empty.
ZoneOfByPriority ==
  (called # <<>> /\ called[1].fn = "zoneOf") =>
    /\ called[1].out \in {"A", "B", "C", "OUT"}
    /\ called[1].out = zoneByPriority(called[1].settings, called[1].arg)
    /\ segments(called[1].settings.zoneA) = <<>> => called[1].out # "OUT"
    /\ inRoot(called[1].arg, called[1].settings.zoneB) => called[1].out = "B"

\* zoneOf has answered B for a file of a staging root inside the workspace
\* root
ZoneOfNestedStaging ==
  /\ called # <<>>
  /\ called[1].fn = "zoneOf"
  /\ called[1].settings.zoneA = <<"SETs">>
  /\ called[1].settings.zoneB = <<"SETs", SLASH, "Draft">>
  /\ called[1].arg = <<"SETs", SLASH, "Draft", SLASH, "a.png">>
  /\ called[1].out = "B"

\* the built-in rules and the valid patterns of the user's text
rulesOfText(text) ==
  {RuleExcalidraw, RuleCanvas}
    \cup {text[i] : i \in {j \in 1..Len(text) : text[j] # "" /\ ValidRegex(text[j])}}

kindByRules(text, path) ==
  IF ~endsWithMd(toLowerCase(path)) THEN "attachment-file"
  ELSE IF \E r \in rulesOfText(text) : RegexTest(r, path) THEN "attachment-md"
  ELSE "note-md"

\* C12: kindOf returns attachment-file for every non-.md path, and for a
\* .md path attachment-md if and only if a built-in rule or a valid pattern
\* of the user matches it, else note-md; whatever the rule text, the
\* compiled rules hold the built-in .excalidraw.md and .canvas.md rules.
KindOfByRules ==
  /\ {RuleExcalidraw, RuleCanvas} \subseteq {attachmentRules[i] : i \in 1..Len(attachmentRules)}
  /\ (called # <<>> /\ called[1].fn = "kindOf") =>
        called[1].out = kindByRules(called[1].settings.attachmentRulesText, called[1].arg)

\* kindOf has answered attachment-md by a pattern of the user, in a text
\* that also holds an invalid pattern
KindOfUserRule ==
  /\ called # <<>>
  /\ called[1].fn = "kindOf"
  /\ called[1].settings.attachmentRulesText = <<"[", "", "^notes/">>
  /\ called[1].arg = <<"notes", SLASH, "n.md">>
  /\ called[1].out = "attachment-md"

CutChars == {"|", "#", "^", "?"}

\* the text of s before the first alias, heading, block or query mark
beforeMarks(s) ==
  SubSeq(s, 1, CHOOSE k \in 0..Len(s) :
                 /\ \A i \in 1..k : s[i] \notin CutChars
                 /\ k = Len(s) \/ s[k + 1] \in CutChars)

cleanedOf(raw) ==
  IF trim(raw) = <<>> THEN <<>>
  ELSE decodeIfPercent(replaceBackslash(trim(beforeMarks(trim(raw)))))

ExampleLink ==
  <<"folder", SLASH, "Note", " ", "Name", "#", "Heading", "^", "block", "|", "Display">>

\* C13: parseLink keeps the text before the first |, #, ^ and ?, converts
\* backslashes to / and percent-decodes once; the link
\* folder/Note Name#Heading^block|Display gives folder/Note Name, which
\* holds a / and is treated as explicit.
ParseLinkCutsAndDecodes ==
  (called # <<>> /\ called[1].fn = "parseLink") =>
    /\ called[1].out.cleaned = cleanedOf(called[1].arg)
    /\ called[1].arg = ExampleLink =>
          /\ called[1].out.cleaned = <<"folder", SLASH, "Note", " ", "Name">>
          /\ called[1].out.explicit
    /\ called[1].arg = <<"a", "%2520", "b.png">> =>
          called[1].out.cleaned = <<"a", "%20", "b.png">>
    /\ called[1].arg = <<"folder", BACKSLASH, "a.png">> =>
          /\ called[1].out.cleaned = <<"folder", SLASH, "a.png">>
          /\ called[1].out.explicit

\* parseLink has parsed the example link and it is explicit
ParseLinkExample ==
  /\ called # <<>>
  /\ called[1].fn = "parseLink"
  /\ called[1].arg = ExampleLink
  /\ called[1].out.explicit

(***************************************************************************)
(* Properties of the reports of SpecReport                                 *)
(***************************************************************************)
\* C14: a raw link whose text is empty after the stripping, the backslash
\* conversion, the percent-decoding and the trimming is discarded: no
\* Backlink of a report (of a real entry or of a missing entry) comes from
\* such a link.
EmptyLinksAreDiscarded ==
  returned # <<>> =>
    \A i \in 1..Len(returned[1].entries) :
       \A j \in 1..Len(returned[1].entries[i].referencedByNotes) :
          trim(cleanedOf(returned[1].entries[i].referencedByNotes[j].raw)) # <<>>

\* C15: in every report, every entry, real or missing, holds at most one
\* Backlink per source note.
OneBacklinkPerNote ==
  returned # <<>> =>
    \A i \in 1..Len(returned[1].entries) :
       \A j, k \in 1..Len(returned[1].entries[i].referencedByNotes) :
          j # k => returned[1].entries[i].referencedByNotes[j].from
                     # returned[1].entries[i].referencedByNotes[k].from

\* an entry the planning leaves alone
unplannable(st, e) ==
  \/ e.zone = "B"
  \/ hasTag(e, "missing")
  \/ e.kind \in {"note-md", "unknown"}
  \/ e.zone = "OUT" /\ ~st.planOutAttachments

\* C16: in every report, no entry that is in Zone B, is tagged missing, is a
\* note or of unknown kind, or is in Zone OUT while planOutAttachments is
\* false, has action MoveTo or MoveToStaging or is the virtualFrom of a
\* preview entry.
PlanningIsRestricted ==
  returned # <<>> =>
    \A i \in 1..Len(returned[1].entries) :
       unplannable(settings, returned[1].entries[i]) =>
         /\ returned[1].entries[i].action.type \notin {"moveTo", "moveToB"}
         /\ \A k \in 1..Len(returned[1].preview) :
               returned[1].preview[k].virtualFrom # returned[1].entries[i].path

\* a report holds an attachment of Zone B, a referenced attachment of Zone
\* OUT that is not to be planned, and a missing entry
ReportWithUnplannable ==
  /\ returned # <<>>
  /\ ~settings.planOutAttachments
  /\ \E i \in 1..Len(returned[1].entries) :
        returned[1].entries[i].zone = "B" /\ isAttachmentKind(returned[1].entries[i].kind)
  /\ \E i \in 1..Len(returned[1].entries) :
        /\ returned[1].entries[i].zone = "OUT"
        /\ isAttachmentKind(returned[1].entries[i].kind)
        /\ Len(returned[1].entries[i].referencedByNotes) > 0
  /\ \E i \in 1..Len(returned[1].entries) : hasTag(returned[1].entries[i], "missing")

\* an attachment the planning handles and no note refers to
eligibleOrphan(st, e) ==
  /\ isAttachmentKind(e.kind)
  /\ ~unplannable(st, e)
  /\ Len(e.referencedByNotes) = 0

\* the report stages e: the preview holds <staging root>/<filename>, made
\* from e, in Zone B and marked B
staged(report, st, e) ==
  /\ e.action = MoveToB("orphan")
  /\ \E k \in 1..Len(report.preview) :
        /\ report.preview[k].virtualFrom = e.path
        /\ report.preview[k].path = normalizePath(st.zoneB \o <<SLASH>> \o baseName(e.path))
        /\ report.preview[k].zone = "B"
        /\ markOf(report.preview[k]) = "B"

\* C17, as stated: an attachment eligible for planning that has no backlink
\* is tagged orphan and, when the conflict pass finds no collision for it,
\* has action MoveToStaging with reason orphan and a preview entry at
\* <staging root>/<filename> whose zone and mark are B.
OrphansAreStaged ==
  returned # <<>> =>
    \A i \in 1..Len(returned[1].entries) :
       eligibleOrphan(settings, returned[1].entries[i]) =>
         /\ hasTag(returned[1].entries[i], "orphan")
         /\ ~isConflict(returned[1].entries[i]) =>
               staged(returned[1], settings, returned[1].entries[i])

\* C17, amended: the same when the staging root is not empty; every
\* eligible attachment without backlink is tagged orphan.
OrphansAreStagedToConfiguredRoot ==
  returned # <<>> =>
    \A i \in 1..Len(returned[1].entries) :
       eligibleOrphan(settings, returned[1].entries[i]) =>
         /\ hasTag(returned[1].entries[i], "orphan")
         /\ (~isConflict(returned[1].entries[i]) /\ normalizePath(settings.zoneB) # <<>>) =>
               staged(returned[1], settings, returned[1].entries[i])

\* a report stages the orphan SETs/a.png to Draft/a.png
OrphanStaged ==
  /\ returned # <<>>
  /\ settings.zoneB = <<"Draft">>
  /\ \E i \in 1..Len(returned[1].entries) :
        /\ returned[1].entries[i].path = PA("a.png")
        /\ eligibleOrphan(settings, returned[1].entries[i])
        /\ ~isConflict(returned[1].entries[i])
  /\ \E k \in 1..Len(returned[1].preview) :
        /\ returned[1].preview[k].path = <<"Draft", SLASH, "a.png">>
        /\ returned[1].preview[k].virtualFrom = PA("a.png")

(***************************************************************************)
(* Properties of the planning of referenced attachments (under SpecPlan)   *)
(***************************************************************************)
\* the folder of the placement policy for the base folder given by its
\* folder names: the root, the configured folder, the base, or the
\* subfolder below the base
policyFolder(st, base) ==
  CASE st.placement.mode = "vault-folder" -> <<>>
    [] st.placement.mode = "specified-folder" -> segments(st.placement.specifiedFolder)
    [] st.placement.mode = "same-folder-as-note" -> base
    [] st.placement.mode = "subfolder-under-note" ->
         base \o segments(st.placement.subfolderName)

\* the folder names of the folder that holds the file at path p
folderOf(p) == SubSeq(segments(p), 1, Len(segments(p)) - 1)

\* the name of the file at path p
filenameOf(p) == segments(p)[Len(segments(p))]

\* action a moves the file of entry e into the folder, given by its names
movesInto(a, e, folder) ==
  /\ a.type = "moveTo"
  /\ a.target = join(folder \o <<filenameOf(e.path)>>)

\* C18: an attachment with exactly one backlink is planned as MoveTo with
\* the explicit path of the backlink as target and explicit = true when the
\* backlink has one, and otherwise into policyFolder(dirname(backlink.from))
\* under its own file name.
OneBacklinkFollowsPolicy ==
  (called # <<>> /\ called[1].fn = "planTargetForOneBacklink") =>
    IF called[1].arg.referencedByNotes[1].explicitPath # <<>>
      THEN /\ called[1].out.type = "moveTo"
           /\ called[1].out.target = called[1].arg.referencedByNotes[1].explicitPath
           /\ called[1].out.explicit
      ELSE movesInto(called[1].out, called[1].arg,
                     policyFolder(called[1].settings,
                                  folderOf(called[1].arg.referencedByNotes[1].from)))

\* the attachment linked by name from proj/web/n.md alone is planned to
\* proj/web/assets/diagram.png under subfolder-under-note
OneBacklinkIntoSubfolder ==
  /\ called # <<>>
  /\ called[1].fn = "planTargetForOneBacklink"
  /\ called[1].settings.placement.mode = "subfolder-under-note"
  /\ called[1].settings.placement.subfolderName = <<"assets">>
  /\ called[1].arg.referencedByNotes[1].explicitPath = <<>>
  /\ called[1].arg.referencedByNotes[1].from = <<"proj", SLASH, "web", SLASH, "n.md">>
  /\ called[1].out.target =
        <<"proj", SLASH, "web", SLASH, "assets", SLASH, "diagram.png">>

\* the folders, by their names, of the notes that refer to entry e
noteFolders(e) == [i \in 1..Len(e.referencedByNotes) |-> folderOf(e.referencedByNotes[i].from)]

\* the lengths k such that all the folders fs start with the same k names
commonLengths(fs) ==
  {k \in 0..Len(fs[1]) :
     \A i \in 1..Len(fs) : Len(fs[i]) >= k /\ SubSeq(fs[i], 1, k) = SubSeq(fs[1], 1, k)}

\* the longest common prefix of the folders fs, folder name by folder name
longestCommonFolder(fs) ==
  SubSeq(fs[1], 1, CHOOSE k \in commonLengths(fs) : \A j \in commonLengths(fs) : j <= k)

\* C19: under the policy lca an attachment with two or more backlinks is
\* planned into policyFolder(L) under its own file name, L being the
\* longest common prefix, folder name by folder name, of the folders of
\* all the notes that refer to it (the root when they share no name).
LcaFollowsCommonFolder ==
  (/\ called # <<>>
   /\ called[1].fn = "planTargetForMultiBacklink"
   /\ called[1].settings.multiBacklinkPolicy = "lca") =>
    movesInto(called[1].out, called[1].arg,
              policyFolder(called[1].settings,
                           longestCommonFolder(noteFolders(called[1].arg))))

\* notes in proj/web and proj/api with the subfolder assets give
\* proj/assets/diagram.png
LcaExample ==
  /\ called # <<>>
  /\ called[1].fn = "planTargetForMultiBacklink"
  /\ called[1].settings.multiBacklinkPolicy = "lca"
  /\ called[1].settings.placement.mode = "subfolder-under-note"
  /\ called[1].settings.placement.subfolderName = <<"assets">>
  /\ Len(called[1].arg.referencedByNotes) = 2
  /\ called[1].arg.referencedByNotes[1].from = <<"proj", SLASH, "web", SLASH, "n.md">>
  /\ called[1].arg.referencedByNotes[2].from = <<"proj", SLASH, "api", SLASH, "m.md">>
  /\ called[1].out.target = <<"proj", SLASH, "assets", SLASH, "diagram.png">>

\* actions a and b move to the same place: same type, target and explicit
samePlan(a, b) == a.type = b.type /\ a.target = b.target /\ a.explicit = b.explicit

\* C20: under the policy pick-first the action planned for an attachment
\* with two or more backlinks is the action that planTargetForOneBacklink
\* gives for its first backlink alone, whether or not that backlink
\* carries an explicit path.
PickFirstPlansAsFirstBacklink ==
  (/\ called # <<>>
   /\ called[1].fn = "planTargetForMultiBacklink"
   /\ called[1].settings.multiBacklinkPolicy = "pick-first") =>
    samePlan(called[1].out,
             planTargetForOneBacklink(called[1].settings, called[1].arg,
                                      called[1].arg.referencedByNotes[1]))

\* the same for a first backlink by the name of the file only
PickFirstByNamePlansAsFirstBacklink ==
  (/\ called # <<>>
   /\ called[1].fn = "planTargetForMultiBacklink"
   /\ called[1].settings.multiBacklinkPolicy = "pick-first"
   /\ called[1].arg.referencedByNotes[1].explicitPath = <<>>) =>
    samePlan(called[1].out,
             planTargetForOneBacklink(called[1].settings, called[1].arg,
                                      called[1].arg.referencedByNotes[1]))

(***************************************************************************)
(* Properties of the conflict tags of the reports (under SpecDetect)       *)
(***************************************************************************)
\* the entries as planned from the vault of the current state, before the
\* simulation of the preview
plannedMap ==
  planAll(settings, withMissing(settings, attachmentRules,
                                scanned(files, folders, metadata, settings, attachmentRules)))

\* const explicitMove = e.action.type === "moveTo" && !!e.action.explicit
explicitMove(e) == e.action.type = "moveTo" /\ e.action.explicit

\* the move planned for the entry at path p is explicit
plannedExplicit(p) == mapHas(plannedMap, p) /\ explicitMove(mapGet(plannedMap, p))

\* entry e, planned at path p, carries conflict-ambiguous-name only as the
\* mode of the check allows, with at most 3 other paths in conflictWith
ambiguousAsChecked(e, p) ==
  hasTag(e, CAN) =>
    /\ settings.globalNameCheck # "off"
    /\ plannedExplicit(p) => settings.globalNameCheck = "on-even-explicit"
    /\ Len(e.conflictWith) <= 3
    /\ \A k \in 1..Len(e.conflictWith) : e.conflictWith[k] # p

\* C21: in the report of the current vault an entry is tagged
\* conflict-ambiguous-name only when globalNameCheck is not off, an entry
\* whose planned move is explicit only when it is on-even-explicit, and
\* conflictWith lists at most 3 paths, none of them the path of the entry.
AmbiguousNameOnlyWhenChecked ==
  (returned # <<>> /\ ~dirty) =>
    /\ \A i \in 1..Len(returned[1].entries) :
          ambiguousAsChecked(returned[1].entries[i], returned[1].entries[i].path)
    /\ \A i \in 1..Len(returned[1].preview) :
          ambiguousAsChecked(returned[1].preview[i], returned[1].preview[i].virtualFrom)

\* SETs/a.png, linked as other/a.png, is tagged conflict-ambiguous-name
\* under on-even-explicit and lists three of the four files of its name
ExplicitMoveTaggedAmbiguous ==
  /\ returned # <<>>
  /\ ~dirty
  /\ settings.globalNameCheck = "on-even-explicit"
  /\ plannedExplicit(PA("a.png"))
  /\ Cardinality({f \in files : nameKey(f) = <<"a.png">>}) = 5
  /\ \E i \in 1..Len(returned[1].entries) :
        /\ returned[1].entries[i].path = PA("a.png")
        /\ hasTag(returned[1].entries[i], CAN)
        /\ Len(returned[1].entries[i].conflictWith) = 3

(***************************************************************************)
(* Properties of loadSettings (under SpecLoad)                             *)
(***************************************************************************)
\* the list xs holds the folder f
holds(xs, f) == \E i \in 1..Len(xs) : xs[i] = f

\* the settings and the count of saves after a load of data with the
\* legacy folder `old`
migratedOnce(out, old) ==
  /\ holds(out.settings.extraScanFolders, old)
  /\ out.settings.extraScanEnabled
  /\ "zoneC" \notin DOMAIN out.settings
  /\ out.saves = 1

\* C22: after loadSettings on persisted data with a non-empty legacy
\* field zoneC, whatever the list and the flag were, the list holds the
\* legacy folder, extraScanEnabled is true, the settings have no zoneC and
\* were persisted once; a load of the persisted result persists nothing.
LegacyFolderIsMigrated ==
  (called # <<>> /\ called[1].fn = "loadSettings") =>
    /\ ("zoneC" \in DOMAIN called[1].arg /\ called[1].arg.zoneC # <<>>) =>
          migratedOnce(called[1].out, trim(called[1].arg.zoneC))
    /\ called[1].again => called[1].out.saves = 0

\* the same for a legacy field that is not blank, when the list did not
\* hold the folder or the flag was set already
LegacyFolderIsMigratedWhenNew ==
  (called # <<>> /\ called[1].fn = "loadSettings") =>
    /\ (/\ hasLegacy(called[1].arg)
        /\ \/ ~holds((called[1].arg @@ DEFAULT_SETTINGS).extraScanFolders,
                      trim(called[1].arg.zoneC))
           \/ (called[1].arg @@ DEFAULT_SETTINGS).extraScanEnabled) =>
          migratedOnce(called[1].out, trim(called[1].arg.zoneC))
    /\ called[1].again => called[1].out.saves = 0

\* the same for a legacy field that is not blank
LegacyFolderNotBlankIsMigrated ==
  (called # <<>> /\ called[1].fn = "loadSettings" /\ hasLegacy(called[1].arg)) =>
    migratedOnce(called[1].out, trim(called[1].arg.zoneC))

(***************************************************************************)
(* Properties of the missing entries of the reports (under SpecReport)     *)
(***************************************************************************)
\* the key of the raw link of the note `from`: the explicit path when the
\* link has one, else the cleaned text
keyOfLink(raw, from) ==
  IF isExplicit(parseLink(raw))
    THEN normalizeExplicitToVaultPath(parseLink(raw), from)
    ELSE parseLink(raw)

\* the raw link of the note `from` names a file and resolves to none
unresolved(raw, from) ==
  /\ parseLink(raw) # <<>>
  /\ ~isExternal(parseLink(raw))
  /\ resolveDest(files, parseLink(raw),
                 IF isExplicit(parseLink(raw))
                   THEN normalizeExplicitToVaultPath(parseLink(raw), from) ELSE <<>>,
                 from) = <<>>

\* the links of the vault that resolve to no file, as <<note, place, raw>>
unresolvedLinks ==
  UNION {{<<n, k, rawLinksOf(settings, metadata[n])[k]>> :
                 k \in {j \in 1..Len(rawLinksOf(settings, metadata[n])) :
                          unresolved(rawLinksOf(settings, metadata[n])[j], n)}} :
              n \in {m \in DOMAIN metadata : m \in files}}

\* entry e is the synthetic entry of the key
missingOf(e, key) ==
  /\ e.path = MissingPrefix \o key
  /\ hasTag(e, "missing")
  /\ e.zone = "OUT"
  /\ e.kind = "unknown"
  /\ e.action.type = "unknown"

\* entry e carries one Backlink for each unresolved link of the key, and
\* a Backlink for the link l
carriesAll(e, key, l) ==
  /\ Len(e.referencedByNotes) =
        Cardinality({u \in unresolvedLinks : keyOfLink(u[3], u[1]) = key})
  /\ \E b \in 1..Len(e.referencedByNotes) :
        /\ e.referencedByNotes[b].from = l[1]
        /\ e.referencedByNotes[b].raw = l[3]

\* C23: in the report of the current vault every link that resolves to no
\* file has, for its key, exactly one entry, which is tagged missing, has
\* zone OUT, kind unknown and action unknown and carries every Backlink of
\* that key; no entry tagged missing has a move or a preview entry.
UnresolvedLinksAreMissingEntries ==
  (returned # <<>> /\ ~dirty) =>
    /\ \A l \in unresolvedLinks :
          /\ Cardinality({i \in 1..Len(returned[1].entries) :
                            returned[1].entries[i].path =
                              MissingPrefix \o keyOfLink(l[3], l[1])}) = 1
          /\ \A i \in 1..Len(returned[1].entries) :
                returned[1].entries[i].path = MissingPrefix \o keyOfLink(l[3], l[1]) =>
                  /\ missingOf(returned[1].entries[i], keyOfLink(l[3], l[1]))
                  /\ carriesAll(returned[1].entries[i], keyOfLink(l[3], l[1]), l)
    /\ \A i \in 1..Len(returned[1].entries) :
          hasTag(returned[1].entries[i], "missing") =>
            /\ returned[1].entries[i].action.type = "unknown"
            /\ \A k \in 1..Len(returned[1].preview) :
                  returned[1].preview[k].virtualFrom # returned[1].entries[i].path

\* a report where gone/z.png, linked twice, and z.png are two missing
\* entries with two Backlinks and one
TwoMissingKeys ==
  /\ returned # <<>>
  /\ ~dirty
  /\ \E i, j \in 1..Len(returned[1].entries) :
        /\ returned[1].entries[i].path = MissingPrefix \o <<"gone", SLASH, "z.png">>
        /\ Len(returned[1].entries[i].referencedByNotes) = 2
        /\ returned[1].entries[j].path = MissingPrefix \o <<"z.png">>
        /\ Len(returned[1].entries[j].referencedByNotes) = 1

(***************************************************************************)
(* Properties of the collisions of names (under SpecDetect)                *)
(***************************************************************************)
\* the report holds the entry at `path` tagged conflict-target-occupied
\* with action Keep
keptAsOccupied(report, path) ==
  \E i \in 1..Len(report.entries) :
     /\ report.entries[i].path = path
     /\ hasTag(report.entries[i], CTO)
     /\ report.entries[i].action.type = "keep"

\* the candidates of the planned map, with their targets
plannedTargetsOf ==
  {<<plannedMap[i].path, targetOf(settings, plannedMap[i])[2]>> :
     i \in {j \in 1..Len(plannedMap) :
              /\ plannedMap[j].path \in {candidatesOf(plannedMap)[k] :
                                            k \in 1..Len(candidatesOf(plannedMap))}
              /\ targetOf(settings, plannedMap[j])[1]}}

\* the targets t and u differ and have the same folder key and name key
sameKeys(t, u) == t # u /\ folderKey(t) = folderKey(u) /\ nameKey(t) = nameKey(u)

\* C24: two candidates whose targets differ as strings but have the same
\* lower-cased folder and the same lower-cased, NFKC-normalized file name
\* both end tagged conflict-target-occupied with action Keep.
SameKeyTargetsAreKept ==
  (returned # <<>> /\ ~dirty) =>
    \A c, d \in plannedTargetsOf :
       sameKeys(c[2], d[2]) =>
         keptAsOccupied(returned[1], c[1]) /\ keptAsOccupied(returned[1], d[1])

\* C24, amended: when a candidate finds the folder key and name key of
\* its target claimed in the same pass by a candidate with another target,
\* both end tagged conflict-target-occupied with action Keep.
ClaimedKeysAreKept ==
  returned # <<>> =>
    \A h \in returned[1].hits :
       h.kind = "folder-name" =>
         keptAsOccupied(returned[1], h.a) /\ keptAsOccupied(returned[1], h.b)

\* SETs/A.png, staged to Draft/A.png, has met the claim of SETs/a.png on
\* Draft/a.png
CaseVariantsCollide ==
  /\ returned # <<>>
  /\ \E h \in returned[1].hits :
        /\ h.kind = "folder-name"
        /\ h.a = PA("A.png")
        /\ h.b = PA("a.png")
        /\ h.target = <<"Draft", SLASH, "A.png">>
  /\ keptAsOccupied(returned[1], PA("a.png"))
  /\ keptAsOccupied(returned[1], PA("A.png"))

\* file f is in the folder of the target t under a name that differs from
\* the name of t by letter case or compatibility form only
variantOf(f, t) == f # t /\ dirname(f) = dirname(t) /\ nameKey(f) = nameKey(t)

\* C29: in the report of the current vault, whatever the mode of
\* globalNameCheck, no preview entry of a candidate that kept its move has
\* a target that differs by letter case or compatibility form only from
\* the path of another file in the target folder.
NoPreviewBesideVariant ==
  (returned # <<>> /\ ~dirty) =>
    \A k \in 1..Len(returned[1].preview) :
       ~isConflict(returned[1].preview[k]) =>
         \A f \in files \ {returned[1].preview[k].virtualFrom} :
            ~variantOf(f, returned[1].preview[k].path)

\* the same when the names are checked for the candidate: globalNameCheck
\* is not off, and is on-even-explicit if the move is explicit
NoPreviewBesideVariantWhenChecked ==
  (returned # <<>> /\ ~dirty) =>
    \A k \in 1..Len(returned[1].preview) :
       (/\ ~isConflict(returned[1].preview[k])
        /\ shouldCheckGlobal(settings, returned[1].preview[k])) =>
         \A f \in files \ {returned[1].preview[k].virtualFrom} :
            ~variantOf(f, returned[1].preview[k].path)

(***************************************************************************)
(* Properties of the refresh timer and of the cached report (under         *)
(* SpecEvents and SpecEventsLive)                                          *)
(***************************************************************************)
\* the step is the firing of a pending timeout
fires == \E t \in timers : TimerFire(t)

\* The steps that the fairness of SpecEventsLive is about are those of TimerFire.
ExpiresIsTimerFire == [][fires <=> expires]_vars

\* C25: at most one refresh timeout is pending and the plugin holds its
\* handle; the timeout that fires leaves none pending, so that the events
\* that came before it cause this one refresh; a pending timeout fires in
\* the end.
RefreshIsDebounced ==
  /\ [](Cardinality(timers) <= 1)
  /\ []((refreshTimer = <<>>) <=> (timers = {}))
  /\ [][fires => timers' = {}]_vars
  /\ (timers # {}) ~> (timers = {})

\* a burst of two vault events has ended with one refresh of the view
BurstOfTwoRefreshed ==
  /\ called # <<>>
  /\ called[1].fn = "refreshOpenViews"
  /\ called[1].burst = 2
  /\ timers = {}
  /\ ~dirty
  /\ returned # <<>>

\* the report of the vault, the cache of links and the settings as they are
freshReport == computeReport(files, folders, metadata, settings, attachmentRules)

\* a vault event or a settings save happens
eventStep ==
  \/ \E f \in EventPaths : OnCreate(f) \/ UserDelete(f)
  \/ \E links \in EventLinks : OnModify(links)
  \/ \E text \in EventRuleTexts : OnSave(text)

\* what a report is computed from changes
inputsChange ==
  <<files, folders, metadata, settings, attachmentRules>>' #
    <<files, folders, metadata, settings, attachmentRules>>

\* the call p of applyPlan starts
applyStarts(p) == procs[p].op = "none" /\ procs'[p].op = "apply"

renames(p) == Len(procs'[p].issued) = Len(procs[p].issued) + 1

\* the call q is in the middle of its batch: it has issued a rename and
\* waits to issue the next one
midBatch(q) == procs[q].issued # <<>> /\ procs[q].pc = "run"

\* the move a running call has issued its i-th rename for: the renames follow
\* the moves whose source was a file, in the order of the list
issuedInOrder(pr) ==
  \A i \in 1..Len(pr.issued) :
     /\ i <= Len(pr.attempted)
     /\ \E j \in 1..Len(pr.moves) :
          /\ pr.issued[i] = [from |-> srcOf(pr, pr.moves[j]), to |-> dstOf(pr, pr.moves[j])]
          /\ \A k \in 1..(i - 1) : \E l \in 1..(j - 1) :
               pr.issued[k] = [from |-> srcOf(pr, pr.moves[l]), to |-> dstOf(pr, pr.moves[l])]

\* C27: the mutations of the vault happen one at a time.  A step issues the
\* rename of one call only; the renames of a call follow its move list; a
\* call in its loop stays in it until the list is exhausted; and no call
\* issues a rename while another call is in the middle of its batch.
BatchesAreNotInterleaved ==
  /\ [](\A p \in Procs : issuedInOrder(procs[p]))
  /\ [][\A p, q \in Procs : (p # q /\ renames(p)) => ~renames(q)]_vars
  /\ [][\A p \in Procs : (procs[p].pc = "run" /\ procs'[p] # procs[p]) =>
           \/ procs'[p].pc = "run" /\ procs'[p].idx > procs[p].idx
           \/ procs'[p].pc = "done" /\ procs'[p].idx = Len(procs[p].moves) + 1
           \/ procs'[p].pc = "run" /\ procs'[p].idx = procs[p].idx]_vars
  /\ [][\A p, q \in Procs : (p # q /\ renames(p)) => ~midBatch(q)]_vars

\* the part of C27 about one batch: order, one rename a step, no early exit
OneBatchIsSequential ==
  /\ [](\A p \in Procs : issuedInOrder(procs[p]))
  /\ [][\A p, q \in Procs : (p # q /\ renames(p)) => ~renames(q)]_vars
  /\ [][\A p \in Procs : (procs[p].pc = "run" /\ procs'[p] # procs[p]) =>
           \/ procs'[p].pc = "run" /\ procs'[p].idx > procs[p].idx
           \/ procs'[p].pc = "done" /\ procs'[p].idx = Len(procs[p].moves) + 1
           \/ procs'[p].pc = "run" /\ procs'[p].idx = procs[p].idx]_vars

(***************************************************************************)
(* Properties of the order of the undo history (under Spec)                *)
(***************************************************************************)
\* the entries of h are in the order of their apply times, oldest first
oldestFirst(h) ==
  \A i, j \in 1..Len(h) : i < j => h[i].timestamp <= h[j].timestamp

\* the call p of undoLastOperation starts and pops an entry
undoStarts(p) ==
  procs[p].op = "none" /\ procs'[p].op = "undo" /\ procs'[p].entry # <<>>

\* C28: the undo history is always ordered oldest first by apply time, and
\* the entry undoLastOperation pops is the most recently applied one of the
\* history.
HistoryIsOldestFirst ==
  /\ [](oldestFirst(undoHistory))
  /\ [][\A p \in Procs : undoStarts(p) =>
           \A i \in 1..Len(undoHistory) :
              undoHistory[i].timestamp <= procs'[p].entry[1].timestamp]_vars

(***************************************************************************)
(* Properties of a confirmed undoLastOperation (under Spec)                *)
(***************************************************************************)
\* the confirmed call p of undoLastOperation takes a step of its own
undoRuns(p) ==
  /\ procs[p].op = "undo" /\ procs'[p].op = "undo"
  /\ procs'[p].answered = "yes"
  /\ (procs'[p].pc # procs[p].pc \/ procs'[p].idx # procs[p].idx)

\* C30: a confirmed undoLastOperation removes exactly one entry, the last of
\* the history, whatever the outcome of its restores: the call pops the last
\* entry when it starts and no later step of it changes the entries of the
\* history; when it has finished, every move of the entry was attempted
\* once, restored + failed is the number of moves of the entry, the call has
\* pushed nothing, and with no other call the history is the one before the
\* call without its last entry.
ConfirmedUndoRemovesOneEntry ==
  /\ [](\A p \in Procs :
          (procs[p].op = "undo" /\ procs[p].answered = "yes"
              /\ procs[p].outcome = "finished") =>
            /\ procs[p].attempted = procs[p].entry[1].moves
            /\ procs[p].ok + procs[p].fail = Len(procs[p].entry[1].moves)
            /\ procs[p].ok = Len(procs[p].renamed)
            /\ Len(procs[p].issued) <= Len(procs[p].entry[1].moves)
            /\ procs[p].pushed = <<>>
            /\ opCount = 1 =>
                 undoEntries(undoHistory)
                   = undoEntries(SubSeq(procs[p].histAtCall, 1, Len(procs[p].histAtCall) - 1)))
  /\ [][\A p \in Procs : undoStarts(p) =>
           /\ procs'[p].entry = <<undoHistory[Len(undoHistory)]>>
           /\ undoHistory' = SubSeq(undoHistory, 1, Len(undoHistory) - 1)]_vars
  /\ [][\A p \in Procs : undoRuns(p) =>
           undoEntries(undoHistory') = undoEntries(undoHistory)]_vars

\* a confirmed undo has finished with a restore that failed
UndoFinishedWithFailure ==
  \E p \in Procs :
     /\ procs[p].op = "undo" /\ procs[p].answered = "yes"
     /\ procs[p].outcome = "finished"
     /\ procs[p].fail > 0
     /\ Len(undoHistory) = Len(procs[p].histAtCall) - 1

====
